---- MODULE Spec2Model ----
(***************************************************************************)
(* A model of the transcript analysis engine of the SATE annotation app:   *)
(* the turn splitter and the segment editing handlers of                   *)
(* ConversationView.tsx / EditTranscriptPopup.tsx, the metric calculator  *)
(* of dataService.ts, the load, save and filter handlers of App.tsx and    *)
(* the audio cache of audioStorageService.ts.                              *)
(*                                                                         *)
(* Conventions.  Times are integers (the code compares and copies them,    *)
(* the only arithmetic is addition/subtraction).  A string is a sequence   *)
(* of one-character strings, so that toLowerCase, replace and includes are *)
(* computed character by character.  JavaScript arrays are sequences;      *)
(* a JavaScript index i is position i + 1 of the sequence.  An optional    *)
(* number is a sequence of length 0 (undefined) or 1.                      *)
(***************************************************************************)
EXTENDS Integers, Sequences, FiniteSets, TLC

\* ------------------------------------------------------------------ bounds
MaxWords == 3
MaxTime == 1
MaxSegments == 2
MaxEdits == 1
MaxMetricWords == 2
MaxClock == 3
MaxRecordings == 2

Times == 0..MaxTime

\* --------------------------------------------------------- JavaScript basics
\* Truthiness of a number: 0 is falsy.
Truthy(x) == x # 0

\* a || b on numbers.
OrElse(a, b) == IF Truthy(a) THEN a ELSE b

\* opt || rest, where opt is an optional number (undefined is falsy).
OptOrElse(opt, rest) == IF opt # <<>> /\ Truthy(opt[1]) THEN opt[1] ELSE rest

\* Array.prototype.slice(0, k) and slice(k).
SliceTo_dropsLast(s, k) == SubSeq(s, 1, k - 1)
SliceTo(s, k) == SubSeq(s, 1, k)
SliceFrom(s, k) == SubSeq(s, k + 1, Len(s))

\* Array.prototype.map with a function given as an operator.
MapSeq(s, F(_)) == [i \in 1..Len(s) |-> F(s[i])]

\* The set of elements of an array.
Range(s) == {s[i] : i \in 1..Len(s)}

\* Math.max over a non-empty set of numbers.
MaxOf(S) == CHOOSE x \in S : \A y \in S : y <= x

\* How many positions of s hold x.
Count(s, x) == Cardinality({i \in 1..Len(s) : s[i] = x})

\* --------------------------------------------------------------- data model
\* dataService.ts: interface Segment.  `text` is kept as the list of the
\* words it joins with ' '.
Segment(speaker, start, end, words) ==
  [speaker |-> speaker, text |-> MapSeq(words, LAMBDA w : w.word),
   start |-> start, end |-> end, words |-> words,
   fillerwords |-> <<>>, repetitions |-> <<>>, pauses |-> <<>>,
   utterance_error |-> <<>>, mispronunciation |-> <<>>,
   morpheme_omissions |-> <<>>, revision |-> <<>>, morphemes |-> <<>>]

\* ------------------------------------------------------------ turn splitter
\* ConversationView.tsx: the first two loops of assignPauseToSegment.
betweenConsecutiveWords(pause, ws) ==
  \E i \in 1..(Len(ws) - 1) :
    /\ Truthy(ws[i].end) /\ Truthy(ws[i + 1].start)
    /\ pause.start >= ws[i].end /\ pause.end <= ws[i + 1].start

assignPauseToSegment(pause, firstSegmentWords, secondSegmentWords, splitTime) ==
  LET lastWordOfFirst == firstSegmentWords[Len(firstSegmentWords)]
      firstWordOfSecond == secondSegmentWords[1]
  IN IF betweenConsecutiveWords(pause, firstSegmentWords) THEN "first"
     ELSE IF betweenConsecutiveWords(pause, secondSegmentWords) THEN "second"
     ELSE IF /\ Truthy(lastWordOfFirst.end) /\ Truthy(firstWordOfSecond.start)
             /\ pause.start >= lastWordOfFirst.end
             /\ pause.end <= firstWordOfSecond.start
          THEN "second"
     ELSE IF pause.start < splitTime THEN "first" ELSE "second"

\* words.some(w => w.start === x.start && w.end === x.end)
someWordAt(ws, x) == \E i \in 1..Len(ws) : ws[i].start = x.start /\ ws[i].end = x.end

\* (m.index || m.word_index || 0)
morphemeIndex(m) == OptOrElse(m.index, OptOrElse(m.word_index, 0))

\* m.index !== undefined ? m.index - splitPoint : m.index
shiftOpt(opt, splitPoint) == IF opt # <<>> THEN <<opt[1] - splitPoint>> ELSE opt

\* wordIdx - splitPoint: an index of the turn as an index of the second turn.
shiftIndex_unshifted(wordIdx, splitPoint) == wordIdx
shiftIndex(wordIdx, splitPoint) == wordIdx - splitPoint

firstSegment(segment, splitPoint, splitTime) ==
  LET firstWords == SliceTo(segment.words, splitPoint)
      secondWords == SliceFrom(segment.words, splitPoint)
  IN [segment EXCEPT
       !.text = MapSeq(firstWords, LAMBDA w : w.word),
       !.end = splitTime,
       !.words = firstWords,
       !.fillerwords = SelectSeq(segment.fillerwords, LAMBDA f : someWordAt(firstWords, f)),
       !.repetitions =
          MapSeq(SelectSeq(segment.repetitions,
                           LAMBDA rep : \E i \in 1..Len(rep.words) : rep.words[i] < splitPoint),
                 LAMBDA rep : [rep EXCEPT !.words =
                                 SelectSeq(rep.words, LAMBDA wordIdx : wordIdx < splitPoint)]),
       !.morphemes = SelectSeq(segment.morphemes, LAMBDA m : morphemeIndex(m) < splitPoint),
       !.morpheme_omissions =
          SelectSeq(segment.morpheme_omissions, LAMBDA mo : OrElse(mo.word_index, 0) < splitPoint),
       !.mispronunciation =
          SelectSeq(segment.mispronunciation, LAMBDA mp : someWordAt(firstWords, mp)),
       !.pauses =
          SelectSeq(segment.pauses,
                    LAMBDA p : assignPauseToSegment(p, firstWords, secondWords, splitTime) = "first"),
       !.revision =
          MapSeq(SelectSeq(segment.revision,
                           LAMBDA rev : \E i \in 1..Len(rev.location) : rev.location[i] < splitPoint),
                 LAMBDA rev : [rev EXCEPT !.location =
                                 SelectSeq(rev.location, LAMBDA wordIdx : wordIdx < splitPoint)])]

secondSegment(segment, splitPoint, splitTime) ==
  LET firstWords == SliceTo(segment.words, splitPoint)
      secondWords == SliceFrom(segment.words, splitPoint)
  IN [segment EXCEPT
       !.text = MapSeq(secondWords, LAMBDA w : w.word),
       !.start = splitTime,
       !.words = secondWords,
       !.fillerwords = SelectSeq(segment.fillerwords, LAMBDA f : someWordAt(secondWords, f)),
       !.repetitions =
          MapSeq(SelectSeq(segment.repetitions,
                           LAMBDA rep : \E i \in 1..Len(rep.words) : rep.words[i] >= splitPoint),
                 LAMBDA rep : [rep EXCEPT !.words =
                                 MapSeq(SelectSeq(rep.words, LAMBDA wordIdx : wordIdx >= splitPoint),
                                        LAMBDA wordIdx : shiftIndex(wordIdx, splitPoint))]),
       !.morphemes =
          MapSeq(SelectSeq(segment.morphemes, LAMBDA m : morphemeIndex(m) >= splitPoint),
                 LAMBDA m : [m EXCEPT !.index = shiftOpt(m.index, splitPoint),
                                      !.word_index = shiftOpt(m.word_index, splitPoint)]),
       !.morpheme_omissions =
          MapSeq(SelectSeq(segment.morpheme_omissions,
                           LAMBDA mo : OrElse(mo.word_index, 0) >= splitPoint),
                 LAMBDA mo : [mo EXCEPT !.word_index = shiftIndex(mo.word_index, splitPoint)]),
       !.mispronunciation =
          SelectSeq(segment.mispronunciation, LAMBDA mp : someWordAt(secondWords, mp)),
       !.pauses =
          SelectSeq(segment.pauses,
                    LAMBDA p : assignPauseToSegment(p, firstWords, secondWords, splitTime) = "second"),
       !.revision =
          MapSeq(SelectSeq(segment.revision,
                           LAMBDA rev : \E i \in 1..Len(rev.location) : rev.location[i] >= splitPoint),
                 LAMBDA rev : [rev EXCEPT !.location =
                                 MapSeq(SelectSeq(rev.location, LAMBDA wordIdx : wordIdx >= splitPoint),
                                        LAMBDA wordIdx : shiftIndex(wordIdx, splitPoint))])]

\* ------------------------------------------------------------ issue counts
\* The length of each annotation array, summed over the segments.
RECURSIVE sumSeq(_)
sumSeq(s) == IF s = <<>> THEN 0 ELSE Head(s) + sumSeq(Tail(s))

sumOver(segments, F(_)) == sumSeq(MapSeq(segments, F))

\* morpheme.morpheme_form && morpheme.morpheme_form !== '<IRR>'
IRR == <<"<", "I", "R", "R", ">">>
visibleMorpheme(m) == m.morpheme_form # <<>> /\ m.morpheme_form # IRR

countErrors(segments) ==
  [pause |-> sumOver(segments, LAMBDA s : Len(s.pauses)),
   filler |-> sumOver(segments, LAMBDA s : Len(s.fillerwords)),
   repetition |-> sumOver(segments, LAMBDA s : Len(s.repetitions)),
   mispronunciation |-> sumOver(segments, LAMBDA s : Len(s.mispronunciation)),
   morpheme |-> sumOver(segments, LAMBDA s : Len(SelectSeq(s.morphemes, visibleMorpheme))),
   morpheme_omission |-> sumOver(segments, LAMBDA s : Len(s.morpheme_omissions)),
   revision |-> sumOver(segments, LAMBDA s : Len(s.revision)),
   utterance_error |-> sumOver(segments, LAMBDA s : Len(s.utterance_error))]

\* ------------------------------------------------------------ string helpers
UpperLetters ==
  <<"A", "B", "C", "D", "E", "F", "G", "H", "I", "J", "K", "L", "M",
    "N", "O", "P", "Q", "R", "S", "T", "U", "V", "W", "X", "Y", "Z">>
LowerLetters ==
  <<"a", "b", "c", "d", "e", "f", "g", "h", "i", "j", "k", "l", "m",
    "n", "o", "p", "q", "r", "s", "t", "u", "v", "w", "x", "y", "z">>

LowerOf ==
  [c \in Range(UpperLetters) |->
     LowerLetters[CHOOSE i \in 1..Len(UpperLetters) : UpperLetters[i] = c]]

lowerChar(c) == IF c \in DOMAIN LowerOf THEN LowerOf[c] ELSE c

\* String.prototype.toLowerCase
toLowerCase(word) == MapSeq(word, lowerChar)

\* The character class [.,!?;:]
Punctuation == {".", ",", "!", "?", ";", ":"}

\* word.replace(/[.,!?;:]/g, '')
removeAllPunct(word) == SelectSeq(word, LAMBDA c : c \notin Punctuation)

\* word.replace(/[.,!?;:]$/, ''): at most one character, at the end.
stripTrailingPunct(word) ==
  IF word # <<>> /\ word[Len(word)] \in Punctuation
    THEN SubSeq(word, 1, Len(word) - 1)
    ELSE word

\* String.prototype.includes for a single character.
includes(word, c) == \E i \in 1..Len(word) : word[i] = c

\* /^[.,!?;:]+$/.test(word)
purePunctuation(word) == word # <<>> /\ \A i \in 1..Len(word) : word[i] \in Punctuation

um == <<"u", "m">>
uh == <<"u", "h">>

\* ------------------------------------------------------ metric calculator
\* dataService.ts calculateSpeechAnalysis: isFillerOrPunctuation(word).
isFillerOrPunctuation_keepsFillers(word) ==
  LET cleanWord == removeAllPunct(toLowerCase(word))
  IN \/ cleanWord = <<>>
     \/ includes(word, "[")
     \/ includes(word, "]")
     \/ purePunctuation(word)
isFillerOrPunctuation(word) ==
  LET cleanWord == removeAllPunct(toLowerCase(word))
  IN \/ cleanWord = <<>>
     \/ cleanWord = um
     \/ cleanWord = uh
     \/ includes(word, "[")
     \/ includes(word, "]")
     \/ purePunctuation(word)

\* The comparison inside every morphemes.find / morphemes.filter callback.
\* On a record that has no word the callback raises (m.word.replace):
\* raisesTypeError below tells when a callback is run on such a record, and
\* the value given here for it is never used by a run that completes.
sameContent(word, m) ==
  /\ "word" \in DOMAIN m
  /\ stripTrailingPunct(word.word) = stripTrailingPunct(m.word)

\* morphemes?.find(...): the first matching record, or undefined (<<>>).
findMorpheme(morphemes, word) ==
  LET hits == {i \in 1..Len(morphemes) : sameContent(word, morphemes[i])}
  IN IF hits = {} THEN <<>>
     ELSE <<morphemes[CHOOSE i \in hits : \A j \in hits : i <= j]>>

\* splitSegmentIntoUtterances: the filter that decides whether the words
\* collected so far make an utterance.
meaningfulWord_keepsFillers(w) ==
  LET cleanWord == removeAllPunct(toLowerCase(w.word))
  IN /\ cleanWord # <<>>
     /\ ~includes(w.word, "[")
     /\ ~includes(w.word, "]")
meaningfulWord(w) ==
  LET cleanWord == removeAllPunct(toLowerCase(w.word))
  IN /\ cleanWord # <<>>
     /\ cleanWord # um
     /\ cleanWord # uh
     /\ ~includes(w.word, "[")
     /\ ~includes(w.word, "]")

endsSentence_unlessFiller(word) ==
  /\ includes(word, ".") \/ includes(word, "?") \/ includes(word, "!")
  /\ removeAllPunct(toLowerCase(word)) \notin {um, uh}
endsSentence(word) == includes(word, ".") \/ includes(word, "?") \/ includes(word, "!")

\* currentUtterance = [] after a sentence end.
afterSentence_keepsWords(collected) == collected
afterSentence(collected) == <<>>

\* utterances.push({words: [...currentUtterance], morphemes: utteranceMorphemes})
\* when the collected words hold a meaningful word.
pushUtterance(segment, currentUtterance, utterances) ==
  IF \E j \in 1..Len(currentUtterance) : meaningfulWord(currentUtterance[j])
    THEN Append(utterances,
                [words |-> currentUtterance,
                 morphemes |->
                   SelectSeq(segment.morphemes,
                             LAMBDA m : \E j \in 1..Len(currentUtterance) :
                                           sameContent(currentUtterance[j], m))])
    ELSE utterances

\* The forEach over segment.words from word i on, then the final utterance.
RECURSIVE scanWords(_, _, _, _)
scanWords(segment, i, currentUtterance, utterances) ==
  IF i > Len(segment.words)
    THEN IF Len(currentUtterance) > 0
           THEN pushUtterance(segment, currentUtterance, utterances)
           ELSE utterances
    ELSE LET collected == Append(currentUtterance, segment.words[i])
         IN IF endsSentence(segment.words[i].word)
              THEN scanWords(segment, i + 1, afterSentence(collected),
                             pushUtterance(segment, collected, utterances))
              ELSE scanWords(segment, i + 1, collected, utterances)

splitSegmentIntoUtterances(segment) == scanWords(segment, 1, <<>>, <<>>)

RECURSIVE flatten(_)
flatten(ss) == IF ss = <<>> THEN <<>> ELSE Head(ss) \o flatten(Tail(ss))

\* A quotient a / b of two naturals, b > 0, in lowest terms.
RECURSIVE gcd(_, _)
gcd(a, b) == IF b = 0 THEN a ELSE gcd(b, a % b)
Quotient(a, b) == LET g == gcd(a, b) IN [num |-> a \div g, den |-> b \div g]
Zero == [num |-> 0, den |-> 1]
Whole(n) == [num |-> n, den |-> 1]

ExaminerSpeakers ==
  {<<"E", "x", "a", "m", "i", "n", "e", "r">>, <<"E", "X", "A", "M", "I", "N", "E", "R">>}

childSegments_keepsExaminer(segments) ==
  SelectSeq(segments,
            LAMBDA segment :
              \E i \in 1..Len(segment.words) : ~isFillerOrPunctuation(segment.words[i].word))

\* The filter that keeps the turns whose utterances are measured.
childSegments(segments) ==
  SelectSeq(segments,
            LAMBDA segment :
              /\ segment.speaker \notin ExaminerSpeakers
              /\ \E i \in 1..Len(segment.words) : ~isFillerOrPunctuation(segment.words[i].word))

allUtterances(segments) == flatten(MapSeq(childSegments(segments), splitSegmentIntoUtterances))

validWords(words) == SelectSeq(words, LAMBDA word : ~isFillerOrPunctuation(word.word))

\* The text a valid word enters the set of different words with.
wordForNDW_ignoresLemma(segment, word) == removeAllPunct(toLowerCase(word.word))
wordForNDW(segment, word) ==
  LET morpheme == findMorpheme(segment.morphemes, word)
  IN IF /\ morpheme # <<>>
        /\ morpheme[1].lemma # <<>>
        /\ visibleMorpheme(morpheme[1])
       THEN toLowerCase(morpheme[1].lemma)
       ELSE removeAllPunct(toLowerCase(word.word))

allWords_countsEveryWord(segments) ==
  UNION {{wordForNDW(segments[s], w) : w \in Range(segments[s].words)} : s \in 1..Len(segments)}
allWords(segments) ==
  UNION {{wordForNDW(segments[s], w) : w \in Range(validWords(segments[s].words))} :
           s \in 1..Len(segments)}

\* The morphemes one utterance counts: 2 for a valid word whose matched
\* record has a form other than <IRR>, 1 for every other valid word.
morphemesOfWord_alwaysOne(utterance, validWord) == 1
morphemesOfWord(utterance, validWord) ==
  LET morpheme == findMorpheme(utterance.morphemes, validWord)
  IN IF morpheme # <<>> /\ visibleMorpheme(morpheme[1]) THEN 2 ELSE 1

utteranceMorphemes(utterance) ==
  sumSeq(MapSeq(validWords(utterance.words), LAMBDA w : morphemesOfWord(utterance, w)))

\* dataService.ts getErrorAnnotations: the types are added to a Set, which
\* keeps one entry per type in the order of first insertion, and the Set is
\* returned as an array.
addType_keepsDuplicates(errorTypes, type) == Append(errorTypes, type)
addType(errorTypes, type) ==
  IF type \in Range(errorTypes) THEN errorTypes ELSE Append(errorTypes, type)

\* The types one segment adds, in the order of the if statements.
typesOfSegment(segment) ==
  SelectSeq(<<"filler", "repetition", "pause", "utterance-error", "mispronunciation",
              "morpheme-omission", "morpheme", "revision">>,
            LAMBDA type :
              \/ type = "filler" /\ Len(segment.fillerwords) > 0
              \/ type = "repetition" /\ Len(segment.repetitions) > 0
              \/ type = "pause" /\ Len(segment.pauses) > 0
              \/ type = "utterance-error" /\ Len(segment.utterance_error) > 0
              \/ type = "mispronunciation" /\ Len(segment.mispronunciation) > 0
              \/ type = "morpheme-omission" /\ Len(segment.morpheme_omissions) > 0
              \/ type = "morpheme"
                   /\ \E i \in 1..Len(segment.morphemes) : visibleMorpheme(segment.morphemes[i])
              \/ type = "revision" /\ Len(segment.revision) > 0)

RECURSIVE addTypes(_, _)
addTypes(errorTypes, types) ==
  IF types = <<>> THEN errorTypes ELSE addTypes(addType(errorTypes, Head(types)), Tail(types))

getErrorAnnotations(segments) == addTypes(<<>>, flatten(MapSeq(segments, typesOfSegment)))

calculateSpeechAnalysis(segments) ==
  LET errorCounts == countErrors(segments)
      totalWords == sumOver(segments, LAMBDA s : Len(s.words))
      totalDuration == IF Len(segments) > 0 THEN MaxOf({segments[s].end : s \in 1..Len(segments)})
                       ELSE 0
      totalErrors == errorCounts.pause + errorCounts.filler + errorCounts.repetition
                       + errorCounts.mispronunciation + errorCounts.morpheme
                       + errorCounts.morpheme_omission + errorCounts.revision
                       + errorCounts.utterance_error
      utterances == allUtterances(segments)
      totalUtteranceWords == sumSeq(MapSeq(utterances, LAMBDA u : Len(validWords(u.words))))
      totalMorphemes == sumSeq(MapSeq(utterances, utteranceMorphemes))
  IN [errorCounts |-> errorCounts,
      totalWords |-> totalWords,
      totalDuration |-> totalDuration,
      speakingRate |-> IF totalDuration > 0 THEN Quotient(totalWords * 60, totalDuration) ELSE Zero,
      errorRate |-> IF totalWords > 0 THEN Quotient(totalErrors * 100, totalWords) ELSE Zero,
      availableErrorTypes |-> getErrorAnnotations(segments),
      segmentCount |-> Len(segments),
      speakerCount |-> Cardinality({segments[s].speaker : s \in 1..Len(segments)}),
      ntw |-> sumOver(segments, LAMBDA s : Len(validWords(s.words))),
      ndw |-> Cardinality(allWords(segments)),
      mluw |-> IF Len(utterances) > 0 THEN Quotient(totalUtteranceWords, Len(utterances)) ELSE Zero,
      mlum |-> IF Len(utterances) > 0 THEN Quotient(totalMorphemes, Len(utterances)) ELSE Zero,
      numberOfPauses |-> sumOver(segments, LAMBDA s : Len(s.pauses))]

\* When calculateSpeechAnalysis raises a TypeError instead of returning.
\* segment.words.length and segment.words.forEach read a property of
\* undefined when a turn has no words array; m.word.replace does when a
\* callback reaches a morpheme record that has no word.
lacksWord(m) == "word" \notin DOMAIN m

\* morphemes.find(...) stops at the first match.
findRaises(morphemes, word) ==
  \E j \in 1..Len(morphemes) :
    /\ lacksWord(morphemes[j])
    /\ \A i \in 1..(j - 1) : ~sameContent(word, morphemes[i])

\* morphemes.filter(...) of splitSegmentIntoUtterances runs on every record.
filterRaises(segment) ==
  /\ segment.speaker \notin ExaminerSpeakers
  /\ \E i \in 1..Len(segment.words) : ~isFillerOrPunctuation(segment.words[i].word)
  /\ \E j \in 1..Len(segment.morphemes) : lacksWord(segment.morphemes[j])

raisesTypeError(segments) ==
  IF \E s \in 1..Len(segments) : "words" \notin DOMAIN segments[s]
    THEN TRUE
    ELSE \E s \in 1..Len(segments) :
           \/ \E i \in 1..Len(segments[s].words) :
                /\ ~isFillerOrPunctuation(segments[s].words[i].word)
                /\ findRaises(segments[s].morphemes, segments[s].words[i])
           \/ filterRaises(segments[s])

\* ------------------------------------------- the sidebar's speaker metrics
\* RightSidebar.tsx computes its own figures from the turns of the current
\* speaker.  Its word filters are the same code as isFillerOrPunctuation and
\* as the filter of splitSegmentIntoUtterances.
speakerTranscriptData(segments, currentSpeaker) ==
  SelectSeq(segments, LAMBDA segment : segment.speaker = currentSpeaker)

totalIssuesOf(data) ==
  sumOver(data,
          LAMBDA segment :
            Len(segment.fillerwords) + Len(segment.repetitions) + Len(segment.pauses)
              + Len(segment.utterance_error) + Len(segment.mispronunciation)
              + Len(segment.morpheme_omissions)
              + Len(SelectSeq(segment.morphemes, visibleMorpheme))
              + Len(segment.revision))

calculateTotalWords(data) == sumOver(data, LAMBDA segment : Len(validWords(segment.words)))

calculateNDW(data) ==
  LET uniqueWords ==
        UNION {{removeAllPunct(toLowerCase(word.word)) : word \in Range(validWords(data[s].words))} :
                 s \in 1..Len(data)}
  IN Cardinality(uniqueWords \ {<<>>})

validSegments(data) ==
  SelectSeq(data, LAMBDA segment : \E i \in 1..Len(segment.words) : meaningfulWord(segment.words[i]))

calculateMLUw(data) ==
  LET totalValidWords ==
        sumOver(validSegments(data), LAMBDA segment : Len(SelectSeq(segment.words, meaningfulWord)))
  IN IF Len(validSegments(data)) = 0
       THEN Zero
       ELSE Quotient(totalValidWords, Len(validSegments(data)))

calculateMLUm(data) ==
  LET segmentMorphemes(segment) ==
        sumSeq(MapSeq(SelectSeq(segment.words, meaningfulWord),
                      LAMBDA validWord : morphemesOfWord(segment, validWord)))
      totalMorphemes == sumOver(validSegments(data), segmentMorphemes)
  IN IF Len(validSegments(data)) = 0
       THEN Zero
       ELSE Quotient(totalMorphemes, Len(validSegments(data)))

sidebarErrorRate(data) ==
  IF calculateTotalWords(data) > 0
    THEN Quotient(totalIssuesOf(data) * 100, calculateTotalWords(data))
    ELSE Zero

\* ------------------------------------------------------- the editing program
VARIABLES
  transcriptData,   \* App.tsx: useState<Segment[]>, the prop of ConversationView
  issueCounts,      \* App.tsx: useState<IssueCounts>
  speechAnalysis,   \* App.tsx: useState<SpeechAnalysis | null>, <<>> (null) or <<analysis>>
  editingSegment,   \* ConversationView.tsx: <<>> (null) or <<[segment, index]>>
  editForm,         \* EditTranscriptPopup.tsx: useState<EditForm>
  hasChanges,       \* EditTranscriptPopup.tsx: useState(false)
  edits,            \* how many popup edits and inserted segments the user has made
  lastCall,         \* the handler that ran last, its arguments, whether it called onTranscriptChange
  prevData,         \* transcriptData as it was when that handler started
  availableErrorTypes, \* App.tsx: useState<string[]>
  activeFilters,    \* App.tsx: useState<string[]>
  currentRecordingId, \* App.tsx: useState<string | null>, <<>> (null) or <<id>>
  recordings,       \* the recordings table: the transcript stored under id i at position i
  shown,            \* where the displayed transcript came from
  task,             \* the upload or clip handler in flight: <<>> or <<[kind, pc, data]>>
  audioCache,       \* localStorage['sate_audio_cache']: the entries in key order
  now,              \* Date.now()
  cacheCalls,       \* cacheAudioFile / cacheAudioFromUrl calls awaiting the audio data
  lastWrite         \* the last cache hand-over to setCacheStorage by a caching call

appVars == <<activeFilters, currentRecordingId, recordings, shown, task>>
cacheVars == <<audioCache, now, cacheCalls, lastWrite>>
popupVars == <<editingSegment, editForm, hasChanges, edits>>
vars == <<transcriptData, issueCounts, speechAnalysis, editingSegment, editForm, hasChanges, edits, lastCall, prevData,
          availableErrorTypes, appVars, cacheVars>>

\* The texts of the words of an uploaded turn, by position.
EditTexts == << <<"a">>, <<"b">> >>
TextAt(i) == EditTexts[((i - 1) % Len(EditTexts)) + 1]

Child == <<"C", "h", "i", "l", "d">>

TimePairs == {p \in [start : Times, end : Times] : p.start <= p.end}

\* Word timings: start <= end for each word, the words in time order.
Layouts(n) ==
  {l \in [1..n -> TimePairs] :
     \A i \in 1..(n - 1) : l[i].start <= l[i + 1].start /\ l[i].end <= l[i + 1].end}

\* One word per position, evenly spaced, for the turns whose annotation is
\* located by index or by content.
PlainLayout(n) == [i \in 1..n |-> [start |-> i - 1, end |-> i]]

WordsOf(l) == [i \in 1..Len(l) |-> [word |-> TextAt(i), start |-> l[i].start, end |-> l[i].end]]

\* A turn whose start and end bound its words (spec section 3).
BoundedTurn(l) ==
  Segment(Child, l[1].start, MaxOf({l[i].end : i \in 1..Len(l)}), WordsOf(l))

\* The annotation records a turn of n words can carry.
IndexSeqs(n) ==
  {<<i>> : i \in 0..(n - 1)} \cup {<<i, j>> : i \in 0..(n - 1), j \in 0..(n - 1)}
Forms == {<<"-", "s">>, IRR}
OptIndexes(n) ==
  {<<<<>>, <<>>>>} \cup {<< <<i>>, <<>> >> : i \in 0..(n - 1)} \cup {<< <<>>, <<i>> >> : i \in 0..(n - 1)}
MorphemeRecords(n) ==
  {[word |-> w, lemma |-> w, morpheme_form |-> f, index |-> ix[1], word_index |-> ix[2]] :
     w \in Range(EditTexts), f \in Forms, ix \in OptIndexes(n)}

\* Turns with at most one record located by timestamp, or a turn-level record.
TimedTurns(l) ==
  LET t == BoundedTurn(l)
      wordTimes == {[start |-> l[i].start, end |-> l[i].end] : i \in 1..Len(l)}
  IN {t}
     \cup {[t EXCEPT !.fillerwords = <<f>>] : f \in wordTimes}
     \cup {[t EXCEPT !.mispronunciation = <<f>>] : f \in wordTimes}
     \cup {[t EXCEPT !.pauses = <<[start |-> p.start, end |-> p.end, duration |-> p.end - p.start]>>] :
              p \in TimePairs}
     \cup {[t EXCEPT !.utterance_error = <<[type |-> "error"]>>]}

\* Turns with one record located by word index or by content.
IndexedTurns(n) ==
  LET t == BoundedTurn(PlainLayout(n))
  IN {[t EXCEPT !.repetitions = <<[words |-> ix]>>] : ix \in IndexSeqs(n)}
     \cup {[t EXCEPT !.revision = <<[location |-> ix]>>] : ix \in IndexSeqs(n)}
     \cup {[t EXCEPT !.morpheme_omissions = <<[word_index |-> i]>>] : i \in 0..(n - 1)}
     \cup {[t EXCEPT !.morphemes = <<m>>] : m \in MorphemeRecords(n)}

InitTurns ==
  UNION {UNION {TimedTurns(l) : l \in Layouts(n)} \cup IndexedTurns(n) : n \in 1..MaxWords}

Call(name, segmentIndex, arg, invoked) ==
  [name |-> name, segmentIndex |-> segmentIndex, arg |-> arg, invoked |-> invoked]
NoCall == [name |-> "none", segmentIndex |-> 0, arg |-> 0, invoked |-> FALSE]
NoForm == [speaker |-> <<>>, text |-> <<>>, start |-> 0, end |-> 0, words |-> <<>>]

\* No recording is stored or selected and no handler is in flight.
NoOrigin == [kind |-> "none", id |-> 0]
IdleApp ==
  /\ activeFilters = availableErrorTypes
  /\ currentRecordingId = <<>>
  /\ recordings = <<>>
  /\ shown = NoOrigin
  /\ task = <<>>

\* The audio cache is empty and no caching call is in flight.
IdleCache ==
  /\ audioCache = <<>>
  /\ now = 0
  /\ cacheCalls = <<>>
  /\ lastWrite = <<>>

Init ==
  /\ \E t \in InitTurns : transcriptData = <<t>>
  /\ issueCounts = countErrors(transcriptData)
  /\ speechAnalysis = <<calculateSpeechAnalysis(transcriptData)>>
  /\ editingSegment = <<>>
  /\ editForm = NoForm
  /\ hasChanges = FALSE
  /\ edits = 0
  /\ lastCall = NoCall
  /\ prevData = transcriptData
  /\ availableErrorTypes = getErrorAnnotations(transcriptData)
  /\ IdleApp
  /\ IdleCache

\* App.tsx handleTranscriptChange, as far as the state above goes, and the
\* effect on transcriptData.length that runs after it: the analysis is
\* recomputed, or reset to null when the last turn is gone.
handleTranscriptChange(updatedSegments) ==
  /\ transcriptData' = updatedSegments
  /\ speechAnalysis' = IF Len(updatedSegments) = 0 /\ Len(transcriptData) # 0
                          THEN <<>>
                          ELSE <<calculateSpeechAnalysis(updatedSegments)>>
  /\ issueCounts' = countErrors(updatedSegments)
  /\ availableErrorTypes' = getErrorAnnotations(updatedSegments)

\* updatedSegments.splice(segmentIndex, 1, firstSegment, secondSegment)
spliceSplit(data, segmentIndex, first, second) ==
  SubSeq(data, 1, segmentIndex) \o <<first, second>> \o SubSeq(data, segmentIndex + 2, Len(data))

\* if (splitPoint <= 0 || splitPoint >= segment.words.length) return;
invalidSplitPoint_acceptsStart(splitPoint, segment) ==
  splitPoint < 0 \/ splitPoint >= Len(segment.words)
invalidSplitPoint(splitPoint, segment) ==
  splitPoint <= 0 \/ splitPoint >= Len(segment.words)

\* const updatedSegments = [...transcriptData]: the splice works on a copy,
\* so the array the handler was given holds the same turns when it returns.
givenArrayAfter_splicedInPlace(given, updatedSegments) == updatedSegments
givenArrayAfter(given, updatedSegments) == given

\* ConversationView.tsx splitSegmentAt(segmentIndex, splitAfterWordIndex).
\* prevData is the array the handler was given, read when it has returned.
splitSegmentAt(segmentIndex, splitAfterWordIndex) ==
  LET segment == transcriptData[segmentIndex + 1]
      splitPoint == splitAfterWordIndex + 1
      splitTime == OrElse(segment.words[splitPoint + 1].start, segment.start)
      updatedSegments ==
        spliceSplit(transcriptData, segmentIndex,
                    firstSegment(segment, splitPoint, splitTime),
                    secondSegment(segment, splitPoint, splitTime))
  IN /\ editingSegment = <<>>
     /\ IF invalidSplitPoint(splitPoint, segment)
          THEN /\ lastCall' = Call("splitSegmentAt", segmentIndex, splitAfterWordIndex, FALSE)
               /\ prevData' = transcriptData
               /\ UNCHANGED <<transcriptData, issueCounts, speechAnalysis, availableErrorTypes>>
          ELSE /\ lastCall' = Call("splitSegmentAt", segmentIndex, splitAfterWordIndex, TRUE)
               /\ prevData' = givenArrayAfter(transcriptData, updatedSegments)
               /\ handleTranscriptChange(updatedSegments)
     /\ UNCHANGED <<editingSegment, editForm, hasChanges, edits, appVars, cacheVars>>

Split ==
  \E segmentIndex \in 0..(Len(transcriptData) - 1) :
    \E splitAfterWordIndex \in -1..(Len(transcriptData[segmentIndex + 1].words) - 1) :
      /\ Len(transcriptData) < MaxSegments
      /\ splitSegmentAt(segmentIndex, splitAfterWordIndex)

Next == Split

Spec == Init /\ [][Next]_vars

\* ------------------------------------------------ the segment edit popup
\* What the user can type into the popup.
NewWordText == <<"n", "e", "w">>
TypedTexts == {<<"u", "m">>}
TypedTimes == Times
Examiner == <<"E", "x", "a", "m", "i", "n", "e", "r">>

\* ConversationView.tsx startEditingSegment, and the effect of
\* EditTranscriptPopup.tsx that fills the form from the segment.
startEditingSegment(segmentIndex) ==
  LET segment == transcriptData[segmentIndex + 1]
  IN /\ editingSegment = <<>>
     /\ editingSegment' = <<[segment |-> segment, index |-> segmentIndex]>>
     /\ editForm' = [speaker |-> segment.speaker, text |-> segment.text,
                     start |-> segment.start, end |-> segment.end, words |-> segment.words]
     /\ hasChanges' = FALSE
     /\ lastCall' = Call("startEditingSegment", segmentIndex, 0, FALSE)
     /\ prevData' = transcriptData
     /\ UNCHANGED <<transcriptData, issueCounts, speechAnalysis, availableErrorTypes, edits, appVars, cacheVars>>

\* The popup is open and the user may still edit.
PopupEdit(name, wordIndex, form) ==
  /\ editingSegment # <<>>
  /\ edits < MaxEdits
  /\ edits' = edits + 1
  /\ editForm' = form
  /\ hasChanges' = TRUE
  /\ lastCall' = Call(name, editingSegment[1].index, wordIndex, FALSE)
  /\ prevData' = transcriptData
  /\ UNCHANGED <<transcriptData, issueCounts, speechAnalysis, availableErrorTypes, editingSegment, appVars, cacheVars>>

wordTexts(words) == MapSeq(words, LAMBDA w : w.word)

\* EditTranscriptPopup.tsx updateWord(wordIndex, field, value).
updateWordText(wordIndex, value) ==
  LET updatedWords == [editForm.words EXCEPT ![wordIndex + 1].word = value]
  IN PopupEdit("updateWord", wordIndex,
               [editForm EXCEPT !.words = updatedWords, !.text = wordTexts(updatedWords)])

updateWordStart(wordIndex, value) ==
  PopupEdit("updateWord", wordIndex, [editForm EXCEPT !.words[wordIndex + 1].start = value])

updateWordEnd(wordIndex, value) ==
  PopupEdit("updateWord", wordIndex, [editForm EXCEPT !.words[wordIndex + 1].end = value])

\* updatedWords.splice(afterIndex + 1, 0, newWord)
insertAfter(words, afterIndex, newWord) ==
  SubSeq(words, 1, afterIndex + 1) \o <<newWord>> \o SubSeq(words, afterIndex + 2, Len(words))

\* EditTranscriptPopup.tsx addWord(afterIndex).
addWord(afterIndex) ==
  LET at == OrElse(editForm.words[afterIndex + 1].end, editForm.start)
      newWord == [word |-> NewWordText, start |-> at, end |-> at + 1]
      updatedWords == insertAfter(editForm.words, afterIndex, newWord)
  IN PopupEdit("addWord", afterIndex,
               [editForm EXCEPT !.words = updatedWords, !.text = wordTexts(updatedWords)])

\* editForm.words.filter((_, index) => index !== wordIndex)
removeAt(s, index) == SubSeq(s, 1, index) \o SubSeq(s, index + 2, Len(s))

\* EditTranscriptPopup.tsx deleteWord(wordIndex).
deleteWord(wordIndex) ==
  LET updatedWords == removeAt(editForm.words, wordIndex)
  IN PopupEdit("deleteWord", wordIndex,
               [editForm EXCEPT !.words = updatedWords, !.text = wordTexts(updatedWords)])

\* EditTranscriptPopup.tsx updateTiming(field, value).
updateTimingStart(value) == PopupEdit("updateTiming", 0, [editForm EXCEPT !.start = value])
updateTimingEnd(value) == PopupEdit("updateTiming", 1, [editForm EXCEPT !.end = value])

\* EditTranscriptPopup.tsx handleFormChange('speaker', value).
handleFormChange(value) == PopupEdit("handleFormChange", 0, [editForm EXCEPT !.speaker = value])

\* EditTranscriptPopup.tsx handleSave, which calls ConversationView.tsx
\* saveSegmentChanges through onSave.  The Save button is disabled until
\* the form has changes.
handleSave ==
  /\ editingSegment # <<>>
  /\ hasChanges
  /\ LET segment == editingSegment[1].segment
         updatedSegment == [segment EXCEPT !.speaker = editForm.speaker,
                                           !.text = editForm.text,
                                           !.start = editForm.start,
                                           !.end = editForm.end,
                                           !.words = editForm.words]
     IN handleTranscriptChange(
          [transcriptData EXCEPT ![editingSegment[1].index + 1] = updatedSegment])
  /\ editingSegment' = <<>>
  /\ hasChanges' = FALSE
  /\ lastCall' = Call("handleSave", editingSegment[1].index, 0, TRUE)
  /\ prevData' = transcriptData
  /\ UNCHANGED <<editForm, edits, appVars, cacheVars>>

\* EditTranscriptPopup.tsx handleClose (confirmed when there are changes),
\* which calls ConversationView.tsx closeEditPopup.
handleClose ==
  /\ editingSegment # <<>>
  /\ editingSegment' = <<>>
  /\ lastCall' = Call("handleClose", editingSegment[1].index, 0, FALSE)
  /\ prevData' = transcriptData
  /\ UNCHANGED <<transcriptData, issueCounts, speechAnalysis, availableErrorTypes, editForm, hasChanges, edits, appVars, cacheVars>>

\* ConversationView.tsx deleteSegment(segmentIndex).
deleteSegment(segmentIndex) ==
  /\ editingSegment = <<>>
  /\ handleTranscriptChange(removeAt(transcriptData, segmentIndex))
  /\ lastCall' = Call("deleteSegment", segmentIndex, 0, TRUE)
  /\ prevData' = transcriptData
  /\ UNCHANGED <<editingSegment, editForm, hasChanges, edits, appVars, cacheVars>>

\* ConversationView.tsx addNewSegment(afterIndex).
addNewSegment(afterIndex) ==
  LET at == OrElse(transcriptData[afterIndex + 1].end, 0)
      newSegment ==
        Segment(transcriptData[afterIndex + 1].speaker, at, at + 5,
                <<[word |-> <<"N", "e", "w">>, start |-> at, end |-> at + 1],
                  [word |-> <<"s", "e", "g", "m", "e", "n", "t">>, start |-> at + 1, end |-> at + 2],
                  [word |-> <<"t", "e", "x", "t">>, start |-> at + 2, end |-> at + 3]>>)
  IN /\ editingSegment = <<>>
     /\ Len(transcriptData) < MaxSegments
     /\ edits < MaxEdits
     /\ edits' = edits + 1
     /\ handleTranscriptChange(insertAfter(transcriptData, afterIndex, newSegment))
     /\ lastCall' = Call("addNewSegment", afterIndex, 0, TRUE)
     /\ prevData' = transcriptData
     /\ UNCHANGED <<editingSegment, editForm, hasChanges, appVars, cacheVars>>

\* The split buttons the view renders: after every word but the last.
SplitAtButton ==
  \E segmentIndex \in 0..(Len(transcriptData) - 1) :
    \E wordIndex \in 0..(Len(transcriptData[segmentIndex + 1].words) - 2) :
      /\ Len(transcriptData) < MaxSegments
      /\ splitSegmentAt(segmentIndex, wordIndex)

StartEditing == \E i \in 0..(Len(transcriptData) - 1) : startEditingSegment(i)
UpdateWord ==
  \E i \in 0..(Len(editForm.words) - 1) :
    \/ \E v \in TypedTexts : updateWordText(i, v)
    \/ \E v \in TypedTimes : updateWordStart(i, v)
    \/ \E v \in TypedTimes : updateWordEnd(i, v)
AddWord == \E i \in 0..(Len(editForm.words) - 1) : addWord(i)
DeleteWord == \E i \in 0..(Len(editForm.words) - 1) : deleteWord(i)
UpdateTiming == \E v \in TypedTimes : updateTimingStart(v) \/ updateTimingEnd(v)
ChangeSpeaker == handleFormChange(Examiner)
DeleteSegment == \E i \in 0..(Len(transcriptData) - 1) : deleteSegment(i)
AddNewSegment == \E i \in 0..(Len(transcriptData) - 1) : addNewSegment(i)

\* The turns the editing sessions start from: evenly spaced words, at most
\* one annotation record of any category.
EditTurns == UNION {IndexedTurns(n) \cup TimedTurns(PlainLayout(n)) : n \in 1..MaxWords}

InitEdit ==
  /\ \E t \in EditTurns : transcriptData = <<t>>
  /\ issueCounts = countErrors(transcriptData)
  /\ speechAnalysis = <<calculateSpeechAnalysis(transcriptData)>>
  /\ editingSegment = <<>>
  /\ editForm = NoForm
  /\ hasChanges = FALSE
  /\ edits = 0
  /\ lastCall = NoCall
  /\ prevData = transcriptData
  /\ availableErrorTypes = getErrorAnnotations(transcriptData)
  /\ IdleApp
  /\ IdleCache

NextEdit ==
  \/ SplitAtButton
  \/ StartEditing
  \/ UpdateWord
  \/ AddWord
  \/ DeleteWord
  \/ UpdateTiming
  \/ ChangeSpeaker
  \/ DeleteSegment
  \/ AddNewSegment
  \/ handleSave
  \/ handleClose

SpecEdit == InitEdit /\ [][NextEdit]_vars

\* ------------------------------------------------------ the metric program
\* The word texts the analysed transcripts are written with: fillers,
\* sentence ends, an inflected word and its lemma, a capitalised word, a
\* bracket marker and a punctuation token.
cats == <<"c", "a", "t", "s">>
cat == <<"c", "a", "t">>
go == <<"g", "o">>
goDot == <<"g", "o", ".">>
MetricTexts ==
  {um, <<"U", "h", ".">>, goDot, cats, <<"C", "a", "t", "s">>, cat,
   <<".">>, <<"[", "u", "m", "]">>}

PluralS == <<"-", "s">>
Morpheme(word, lemma, form) ==
  [word |-> word, lemma |-> lemma, morpheme_form |-> form, index |-> <<>>, word_index |-> <<>>]

\* The morphemes arrays of the analysed turns: none, a regular and an
\* irregular form, two records for one word, a record without lemma or
\* without form, and a record for a word that ends a sentence.
MetricMorphemes ==
  {<<>>,
   <<Morpheme(cats, cat, PluralS)>>,
   <<Morpheme(cats, cat, IRR)>>,
   <<Morpheme(cats, cat, IRR), Morpheme(cats, cat, PluralS)>>,
   <<Morpheme(cats, <<>>, PluralS)>>,
   <<Morpheme(cats, cat, <<>>)>>,
   <<Morpheme(go, go, PluralS)>>}

\* A turn that starts at time `from`, one word per time unit.
TurnOf(speaker, texts, morphemes, from) ==
  [Segment(speaker, from, from + Len(texts),
           [i \in 1..Len(texts) |->
              [word |-> texts[i], start |-> from + i - 1, end |-> from + i]])
     EXCEPT !.morphemes = morphemes]

TextLists == UNION {[1..n -> MetricTexts] : n \in 0..MaxMetricWords}

\* The speaker of the first turn, and the turn that may follow it.
FollowingTurns(from) ==
  {<<Child, <<>>>>,
   <<Child, <<TurnOf(Examiner, <<goDot, cat>>, <<>>, from)>>>>,
   <<Child, <<TurnOf(<<"E", "X", "A", "M", "I", "N", "E", "R">>, <<cat>>, <<>>, from)>>>>,
   <<Child, <<TurnOf(Child, <<cat, um>>, <<>>, from)>>>>,
   <<Child, <<TurnOf(<<"e", "x", "a", "m", "i", "n", "e", "r">>, <<cat>>, <<>>, from)>>>>,
   <<Examiner, <<>>>>,
   <<Examiner, <<TurnOf(Child, <<cat, um>>, <<>>, from)>>>>}

\* spec.md section 8, scenarios A and B.
ScenarioA ==
  <<TurnOf(Child,
           <<<<"S", "h", "e">>, <<"w", "a", "n", "t", "s">>, <<"t", "o">>, goDot>>,
           <<Morpheme(<<"w", "a", "n", "t", "s">>, <<"w", "a", "n", "t">>, PluralS)>>, 0)>>
ScenarioB ==
  <<TurnOf(Child, <<um, <<"I">>, <<"t", "h", "i", "n", "k">>, <<"s", "o", ".">>>>, <<>>, 0)>>

\* A turn of two fillers, the first one annotated as a filler word.
FillersOnly ==
  <<[TurnOf(Child, <<um, <<"U", "h", ".">>>>, <<>>, 0)
       EXCEPT !.fillerwords = <<[start |-> 0, end |-> 1]>>]>>

\* A turn that carries one record of one issue category, or none.
Annotations ==
  {"none", "filler", "repetition", "pause", "utterance-error", "mispronunciation",
   "morpheme-omission", "morpheme", "irregular", "revision"}
Annotated(turn, type) ==
  CASE type = "filler" -> [turn EXCEPT !.fillerwords = <<[start |-> turn.start, end |-> turn.start + 1]>>]
    [] type = "repetition" -> [turn EXCEPT !.repetitions = <<[words |-> <<0>>]>>]
    [] type = "pause" ->
         [turn EXCEPT !.pauses = <<[start |-> turn.start, end |-> turn.start, duration |-> 0]>>]
    [] type = "utterance-error" -> [turn EXCEPT !.utterance_error = <<[type |-> "error"]>>]
    [] type = "mispronunciation" ->
         [turn EXCEPT !.mispronunciation = <<[start |-> turn.start, end |-> turn.start + 1]>>]
    [] type = "morpheme-omission" -> [turn EXCEPT !.morpheme_omissions = <<[word_index |-> 0]>>]
    [] type = "morpheme" -> [turn EXCEPT !.morphemes = <<Morpheme(cat, cat, PluralS)>>]
    [] type = "irregular" -> [turn EXCEPT !.morphemes = <<Morpheme(cat, cat, IRR)>>]
    [] type = "revision" -> [turn EXCEPT !.revision = <<[location |-> <<0>>]>>]
    [] OTHER -> turn

\* Transcripts with missing data: a turn without its words array, and
\* morpheme records without their word.
WithoutWords(turn) == [field \in DOMAIN turn \ {"words"} |-> turn[field]]
WordlessMorpheme ==
  [lemma |-> cat, morpheme_form |-> PluralS, index |-> <<>>, word_index |-> <<>>]
Malformed ==
  {<<WithoutWords(TurnOf(Child, <<cat>>, <<>>, 0))>>,
   <<TurnOf(Child, <<cat>>, <<>>, 0), WithoutWords(TurnOf(Examiner, <<cat>>, <<>>, 1))>>,
   <<TurnOf(Child, <<cats>>, <<WordlessMorpheme>>, 0)>>,
   <<TurnOf(Child, <<cats>>, <<Morpheme(cats, cat, PluralS), WordlessMorpheme>>, 0)>>,
   <<TurnOf(Examiner, <<cats>>, <<Morpheme(cats, cat, PluralS), WordlessMorpheme>>, 0)>>,
   <<TurnOf(Child, <<um>>, <<WordlessMorpheme>>, 0)>>}

\* A transcript has been loaded and is not analysed yet.
InitMetrics ==
  /\ \/ \E texts \in TextLists, morphemes \in MetricMorphemes :
          \E following \in FollowingTurns(Len(texts)) :
            transcriptData = <<TurnOf(following[1], texts, morphemes, 0)>> \o following[2]
     \/ transcriptData \in {<<>>, ScenarioA, ScenarioB, FillersOnly}
     \/ \E first \in Annotations, second \in Annotations :
          transcriptData = <<Annotated(TurnOf(Child, <<cat>>, <<>>, 0), first),
                             Annotated(TurnOf(Child, <<cat, um>>, <<>>, 1), second)>>
     \/ transcriptData \in Malformed
  /\ issueCounts = countErrors(transcriptData)
  /\ speechAnalysis = <<>>
  /\ editingSegment = <<>>
  /\ editForm = NoForm
  /\ hasChanges = FALSE
  /\ edits = 0
  /\ lastCall = NoCall
  /\ prevData = transcriptData
  /\ availableErrorTypes = getErrorAnnotations(transcriptData)
  /\ IdleApp
  /\ IdleCache

\* setSpeechAnalysis(calculateSpeechAnalysis({ segments: transcriptData }))
Analyze ==
  /\ speechAnalysis = <<>>
  /\ IF raisesTypeError(transcriptData)
       THEN /\ speechAnalysis' = speechAnalysis
            /\ lastCall' = Call("TypeError", 0, 0, FALSE)
       ELSE /\ speechAnalysis' = <<calculateSpeechAnalysis(transcriptData)>>
            /\ lastCall' = Call("calculateSpeechAnalysis", 0, 0, FALSE)
  /\ UNCHANGED <<transcriptData, issueCounts, availableErrorTypes, editingSegment, editForm, hasChanges, edits, prevData, appVars, cacheVars>>

NextMetrics == Analyze

SpecMetrics == InitMetrics /\ [][NextMetrics]_vars

\* ---------------------------------------------------------- the audio cache
\* audioStorageService.ts: const MAX_CACHE_SIZE = 50 * 1024 * 1024, and
\* const CACHE_EXPIRY = 7 * 24 * 60 * 60 * 1000.
MAX_CACHE_SIZE == 52428800
CACHE_EXPIRY == 604800000

\* The audio items the user caches: files of 10, 40 and 50 MB, and the
\* sample clip of 20 MB fetched from its URL.
TenMB == MAX_CACHE_SIZE \div 5
AudioFiles ==
  {[key |-> "a.wav", size |-> TenMB], [key |-> "b.wav", size |-> 4 * TenMB],
   [key |-> "c.wav", size |-> MAX_CACHE_SIZE]}
SampleClip == [key |-> "url_/sound/673_clip.wav", size |-> 2 * TenMB]

\* Date.now(): every reading is a millisecond later than the one before.
DateNow == {at \in {now + 1} : at % CACHE_EXPIRY <= MaxClock}

\* calculateCacheSize(cache)
calculateCacheSize(cache) == sumOver(cache, LAMBDA item : item.size)

\* cache[cacheKey]
cachedAt(cache, cacheKey) == {i \in 1..Len(cache) : cache[i].key = cacheKey}

\* cache[cacheKey].lastAccessed = Date.now()
touch(cache, cacheKey, at) ==
  [i \in 1..Len(cache) |->
     IF cache[i].key = cacheKey THEN [cache[i] EXCEPT !.lastAccessed = at] ELSE cache[i]]

\* clearExpiredItems: the entries cached less than CACHE_EXPIRY ago.
unexpired(cache, at) == SelectSeq(cache, LAMBDA item : at - item.cachedAt < CACHE_EXPIRY)

\* Object.entries(cache).sort(([, a], [, b]) => a.lastAccessed - b.lastAccessed):
\* oldest first, entries of equal time in key order.
insertByLastAccessed(sorted, entry) ==
  LET later == {i \in 1..Len(sorted) : sorted[i].lastAccessed > entry.lastAccessed}
      at == IF later = {} THEN Len(sorted) + 1 ELSE CHOOSE i \in later : \A j \in later : i <= j
  IN SubSeq(sorted, 1, at - 1) \o <<entry>> \o SubSeq(sorted, at, Len(sorted))
RECURSIVE sortedEntries(_)
sortedEntries(cache) ==
  IF cache = <<>> THEN <<>>
  ELSE insertByLastAccessed(sortedEntries(SubSeq(cache, 1, Len(cache) - 1)), cache[Len(cache)])

\* The loop of clearOldItems from sortedEntries[i] down to the oldest entry:
\* an entry is taken over when it still fits, and skipped when it does not.
RECURSIVE keepFrom(_, _, _, _)
keepFrom(sorted, i, updated, targetSize) ==
  IF i < 1 THEN updated
  ELSE IF calculateCacheSize(updated) + sorted[i].size <= targetSize
         THEN keepFrom(sorted, i - 1, Append(updated, sorted[i]), targetSize)
         ELSE keepFrom(sorted, i - 1, updated, targetSize)

\* clearOldItems(cache, targetSize)
clearOldItems(cache, targetSize) ==
  keepFrom(sortedEntries(cache), Len(cache), <<>>, targetSize)

\* const targetSize = MAX_CACHE_SIZE - file.size
targetSizeFor_wholeCache(size) == MAX_CACHE_SIZE
targetSizeFor(size) == MAX_CACHE_SIZE - size

\* The cache a caching call hands to setCacheStorage once it has the audio
\* data: the cache it read with the new item, or the entries clearOldItems
\* keeps with the new item.
updatedCache(cache, cacheKey, size, at) ==
  LET cacheItem == [key |-> cacheKey, size |-> size, cachedAt |-> at, lastAccessed |-> at]
  IN IF calculateCacheSize(Append(cache, cacheItem)) > MAX_CACHE_SIZE
       THEN Append(clearOldItems(cache, targetSizeFor(size)), cacheItem)
       ELSE Append(cache, cacheItem)

\* setCacheStorage(cache): localStorage takes the cache ("stored"), or
\* refuses it and takes the unexpired entries of what it holds ("cleaned"),
\* or refuses both ("refused").
StorageOutcomes == {"stored", "cleaned", "refused"}
setCacheStorage(cache, outcome, at) ==
  audioCache' = CASE outcome = "stored" -> cache
                  [] outcome = "cleaned" -> unexpired(audioCache, at)
                  [] outcome = "refused" -> audioCache

\* cacheAudioFile(file) and cacheAudioFromUrl(url) up to their first await:
\* an item in the cache is touched and written back; for any other item the
\* call keeps the cache it read and waits for the audio data.
WriteOf(cacheKey, from, cache, evicts) ==
  [key |-> cacheKey, from |-> from, cache |-> cache, evicts |-> evicts]
startCaching(item) ==
  IF cachedAt(audioCache, item.key) # {}
    THEN /\ \E at \in DateNow, outcome \in StorageOutcomes :
              /\ now' = at
              /\ setCacheStorage(touch(audioCache, item.key, at), outcome, at)
              /\ lastWrite' = <<WriteOf(item.key, audioCache, touch(audioCache, item.key, at), FALSE)>>
         /\ UNCHANGED cacheCalls
    ELSE /\ \A i \in 1..Len(cacheCalls) : cacheCalls[i].key # item.key
         /\ cacheCalls' = Append(cacheCalls, [key |-> item.key, size |-> item.size,
                                               cache |-> audioCache])
         /\ UNCHANGED <<audioCache, now, lastWrite>>

\* The rest of the call cacheCalls[i]: the audio data has arrived and the
\* item is written, or reading it failed and the call falls back to the
\* plain URL.
finishCaching(i, arrived) ==
  LET call == cacheCalls[i]
  IN /\ cacheCalls' = removeAt(cacheCalls, i - 1)
     /\ IF arrived
          THEN \E at \in DateNow, outcome \in StorageOutcomes :
                 LET written == updatedCache(call.cache, call.key, call.size, at)
                 IN /\ now' = at
                    /\ setCacheStorage(written, outcome, at)
                    /\ lastWrite' = <<WriteOf(call.key, call.cache, written,
                                              calculateCacheSize(call.cache) + call.size > MAX_CACHE_SIZE)>>
          ELSE UNCHANGED <<audioCache, now, lastWrite>>

editorVars ==
  <<transcriptData, issueCounts, speechAnalysis, availableErrorTypes, editingSegment, editForm,
    hasChanges, edits, lastCall, prevData>>

CacheAudioFile ==
  \E file \in AudioFiles :
    /\ startCaching(file)
    /\ UNCHANGED <<editorVars, appVars>>

CacheAudioFromUrl ==
  /\ startCaching(SampleClip)
  /\ UNCHANGED <<editorVars, appVars>>

AudioArrives ==
  \E i \in 1..Len(cacheCalls) :
    /\ finishCaching(i, TRUE)
    /\ UNCHANGED <<editorVars, appVars>>

AudioFails ==
  \E i \in 1..Len(cacheCalls) :
    /\ finishCaching(i, FALSE)
    /\ UNCHANGED <<editorVars, appVars>>

\* App.tsx, on mount: audioStorageService.clearExpiredItems().
ClearExpiredItems ==
  /\ \E at \in DateNow, outcome \in {"stored", "refused"} :
       /\ now' = at
       /\ setCacheStorage(unexpired(audioCache, at), outcome, at)
  /\ UNCHANGED <<cacheCalls, lastWrite, editorVars, appVars>>

\* The cache is left alone for CACHE_EXPIRY milliseconds.
WeekPasses ==
  /\ now < CACHE_EXPIRY
  /\ now' = now + CACHE_EXPIRY
  /\ UNCHANGED <<audioCache, cacheCalls, lastWrite, editorVars, appVars>>

InitCache ==
  /\ transcriptData = <<>>
  /\ issueCounts = countErrors(transcriptData)
  /\ speechAnalysis = <<>>
  /\ editingSegment = <<>>
  /\ editForm = NoForm
  /\ hasChanges = FALSE
  /\ edits = 0
  /\ lastCall = NoCall
  /\ prevData = transcriptData
  /\ availableErrorTypes = <<>>
  /\ IdleApp
  /\ IdleCache

NextCache ==
  \/ CacheAudioFile
  \/ CacheAudioFromUrl
  \/ AudioArrives
  \/ AudioFails
  \/ ClearExpiredItems
  \/ WeekPasses

SpecCache == InitCache /\ [][NextCache]_vars

\* ------------------------------------------------------------ the App shell
\* The transcripts the loads deliver: two of one turn with different words
\* and issue types, and one of two turns.
FillerTurn == <<Annotated(TurnOf(Child, <<cat, um>>, <<>>, 0), "filler")>>
PauseTurn == <<Annotated(TurnOf(Child, <<cats>>, <<>>, 0), "pause")>>
SampleTranscript ==
  <<Annotated(TurnOf(Child, <<cat>>, <<>>, 0), "filler"),
    Annotated(TurnOf(Child, <<cat, um>>, <<>>, 1), "revision")>>
ProcessedTranscripts == {FillerTurn, PauseTurn}

Origin(kind, id) == [kind |-> kind, id |-> id]
Task(handler, pc, segments) == [handler |-> handler, pc |-> pc, segments |-> segments]

\* useEffect on [transcriptData.length], after a handler has displayed the
\* transcript segments and left `analysis` in speechAnalysis: it runs when
\* the number of turns has changed, and only then.
lengthEffect(segments, analysis) ==
  IF Len(segments) # Len(transcriptData)
    THEN IF Len(segments) > 0 THEN <<calculateSpeechAnalysis(segments)>> ELSE <<>>
    ELSE analysis

\* What every load does with the transcript it displays: setTranscriptData,
\* setIssueCounts, setCurrentRecordingId, setAvailableErrorTypes and
\* setActiveFilters(errorTypes).
display(segments, analysis, id, origin) ==
  /\ transcriptData' = segments
  /\ issueCounts' = countErrors(segments)
  /\ speechAnalysis' = lengthEffect(segments, analysis)
  /\ currentRecordingId' = id
  /\ availableErrorTypes' = getErrorAnnotations(segments)
  /\ activeFilters' = getErrorAnnotations(segments)
  /\ shown' = origin
  /\ prevData' = transcriptData

\* App.tsx loadSampleData, from the answer of loadAndAnalyzeLocalJSON on.
\* The audio cache its last call fills is followed in SpecCache.
loadSampleData ==
  /\ editingSegment = <<>>
  /\ display(SampleTranscript, <<calculateSpeechAnalysis(SampleTranscript)>>, <<>>,
             Origin("sample", 0))
  /\ lastCall' = Call("loadSampleData", 0, 0, FALSE)
  /\ UNCHANGED <<recordings, task, popupVars, cacheVars>>

\* App.tsx handleFileUpload(file) up to await cacheAudioFile(file); the
\* audio cache that call fills is followed in SpecCache.
UploadStart ==
  /\ task = <<>>
  /\ editingSegment = <<>>
  /\ Len(recordings) < MaxRecordings
  /\ task' = <<Task("handleFileUpload", "caching", <<>>)>>
  /\ lastCall' = Call("handleFileUpload", 0, 0, FALSE)
  /\ prevData' = transcriptData
  /\ UNCHANGED <<transcriptData, issueCounts, speechAnalysis, availableErrorTypes, activeFilters,
                 currentRecordingId, recordings, shown, popupVars, cacheVars>>

\* handleFileUpload from the answer of cacheAudioFile to await processAudioFile.
UploadCached ==
  /\ task # <<>>
  /\ task[1].pc = "caching"
  /\ task' = <<[task[1] EXCEPT !.pc = "processing"]>>
  /\ UNCHANGED <<editorVars, activeFilters, currentRecordingId, recordings, shown, cacheVars>>

\* handleFileUpload from the answer of processAudioFile to await saveRecording.
UploadProcessed ==
  \E segments \in ProcessedTranscripts :
    /\ task # <<>>
    /\ task[1].handler = "handleFileUpload"
    /\ task[1].pc = "processing"
    /\ display(segments, <<calculateSpeechAnalysis(segments)>>, <<>>, Origin("task", 0))
    /\ task' = <<Task("handleFileUpload", "saving", segments)>>
    /\ lastCall' = Call("handleFileUpload", 0, 0, TRUE)
    /\ UNCHANGED <<recordings, popupVars, cacheVars>>

\* App.tsx handleProcessRecording up to await processAudioFile.
RecordingStart ==
  /\ task = <<>>
  /\ editingSegment = <<>>
  /\ Len(recordings) < MaxRecordings
  /\ task' = <<Task("handleProcessRecording", "processing", <<>>)>>
  /\ lastCall' = Call("handleProcessRecording", 0, 0, FALSE)
  /\ prevData' = transcriptData
  /\ UNCHANGED <<transcriptData, issueCounts, speechAnalysis, availableErrorTypes, activeFilters,
                 currentRecordingId, recordings, shown, popupVars, cacheVars>>

\* handleProcessRecording from the answer of processAudioFile to await
\* saveRecording: the handler does not call setSpeechAnalysis.
RecordingProcessed ==
  \E segments \in ProcessedTranscripts :
    /\ task # <<>>
    /\ task[1].handler = "handleProcessRecording"
    /\ task[1].pc = "processing"
    /\ display(segments, speechAnalysis, <<>>, Origin("task", 0))
    /\ task' = <<Task("handleProcessRecording", "saving", segments)>>
    /\ lastCall' = Call("handleProcessRecording", 0, 0, TRUE)
    /\ UNCHANGED <<recordings, popupVars, cacheVars>>

\* processAudioFile throws: the catch block reports the error.
ProcessingFails ==
  /\ task # <<>>
  /\ task[1].pc = "processing"
  /\ task' = <<>>
  /\ lastCall' = Call(task[1].handler, 0, 0, FALSE)
  /\ prevData' = transcriptData
  /\ UNCHANGED <<transcriptData, issueCounts, speechAnalysis, availableErrorTypes, activeFilters,
                 currentRecordingId, recordings, shown, popupVars, cacheVars>>

\* saveRecording has inserted the processed transcript and answers with the
\* new id: setCurrentRecordingId(result.recordingId || null).
saved(handler) ==
  /\ task # <<>>
  /\ task[1].handler = handler
  /\ task[1].pc = "saving"
  /\ recordings' = Append(recordings, task[1].segments)
  /\ currentRecordingId' = <<Len(recordings) + 1>>
  /\ shown' = IF shown.kind = "task" THEN Origin("stored", Len(recordings) + 1) ELSE shown
  /\ task' = <<>>
  /\ lastCall' = Call(handler, 0, Len(recordings) + 1, TRUE)
  /\ prevData' = transcriptData
  /\ UNCHANGED <<transcriptData, issueCounts, speechAnalysis, availableErrorTypes, activeFilters,
                 popupVars, cacheVars>>
UploadSaved == saved("handleFileUpload")
RecordingSaved == saved("handleProcessRecording")

\* saveRecording answers { success: false }: setDataError.
SavingFails ==
  /\ task # <<>>
  /\ task[1].pc = "saving"
  /\ shown' = IF shown.kind = "task" THEN Origin("unsaved", 0) ELSE shown
  /\ task' = <<>>
  /\ lastCall' = Call(task[1].handler, 0, 0, FALSE)
  /\ prevData' = transcriptData
  /\ UNCHANGED <<transcriptData, issueCounts, speechAnalysis, availableErrorTypes, activeFilters,
                 currentRecordingId, recordings, popupVars, cacheVars>>

\* App.tsx onSelectRecording(url, recordingId), from the answer of
\* loadRecording: the stored analysis is the one saveRecording and
\* updateRecording computed from the stored transcript.
onSelectRecording(recordingId) ==
  /\ editingSegment = <<>>
  /\ display(recordings[recordingId], <<calculateSpeechAnalysis(recordings[recordingId])>>,
             <<recordingId>>, Origin("stored", recordingId))
  /\ lastCall' = Call("onSelectRecording", 0, recordingId, FALSE)
  /\ UNCHANGED <<recordings, task, popupVars, cacheVars>>
SelectRecording == \E recordingId \in 1..Len(recordings) : onSelectRecording(recordingId)

\* App.tsx saveTranscriptChanges, with a user logged in.
saveTranscriptChanges ==
  /\ IF currentRecordingId = <<>>
       THEN /\ lastCall' = Call("saveTranscriptChanges", 0, 0, FALSE)
            /\ UNCHANGED recordings
       ELSE /\ lastCall' = Call("saveTranscriptChanges", 0, currentRecordingId[1], TRUE)
            /\ recordings' = [recordings EXCEPT ![currentRecordingId[1]] = transcriptData]
  /\ prevData' = transcriptData
  /\ UNCHANGED <<transcriptData, issueCounts, speechAnalysis, availableErrorTypes, activeFilters,
                 currentRecordingId, shown, task, popupVars, cacheVars>>

\* App.tsx toggleFilter(filter), for the filters the sidebar offers.
toggleFilter(filter) ==
  /\ activeFilters' = IF filter \in Range(activeFilters)
                        THEN SelectSeq(activeFilters, LAMBDA f : f # filter)
                        ELSE Append(activeFilters, filter)
  /\ lastCall' = Call("toggleFilter", 0, 0, FALSE)
  /\ prevData' = transcriptData
  /\ UNCHANGED <<transcriptData, issueCounts, speechAnalysis, availableErrorTypes,
                 currentRecordingId, recordings, shown, task, popupVars, cacheVars>>
ToggleFilter == \E filter \in Range(availableErrorTypes) : toggleFilter(filter)

\* App.tsx applyPreset(preset).
Presets == {"errors", "speech", "language", "clean"}
applyPreset(preset) ==
  /\ activeFilters' =
       CASE preset = "errors" -> availableErrorTypes
         [] preset = "speech" ->
              SelectSeq(availableErrorTypes,
                        LAMBDA type : type \in {"filler", "repetition", "mispronunciation"})
         [] preset = "language" ->
              SelectSeq(availableErrorTypes,
                        LAMBDA type : type \in {"morpheme-omission", "revision", "utterance-error"})
         [] preset = "clean" -> <<>>
  /\ lastCall' = Call("applyPreset", 0, 0, FALSE)
  /\ prevData' = transcriptData
  /\ UNCHANGED <<transcriptData, issueCounts, speechAnalysis, availableErrorTypes,
                 currentRecordingId, recordings, shown, task, popupVars, cacheVars>>
ApplyPreset == \E preset \in Presets : applyPreset(preset)

\* The app has mounted with a user logged in who has stored one recording.
InitApp ==
  /\ transcriptData = <<>>
  /\ issueCounts = countErrors(transcriptData)
  /\ speechAnalysis = <<>>
  /\ editingSegment = <<>>
  /\ editForm = NoForm
  /\ hasChanges = FALSE
  /\ edits = 0
  /\ lastCall = NoCall
  /\ prevData = transcriptData
  /\ availableErrorTypes = <<>>
  /\ activeFilters = <<>>
  /\ currentRecordingId = <<>>
  /\ recordings = <<SampleTranscript>>
  /\ shown = NoOrigin
  /\ task = <<>>
  /\ IdleCache

NextApp ==
  \/ loadSampleData
  \/ UploadStart
  \/ UploadCached
  \/ UploadProcessed
  \/ RecordingStart
  \/ RecordingProcessed
  \/ ProcessingFails
  \/ UploadSaved
  \/ RecordingSaved
  \/ SavingFails
  \/ SelectRecording
  \/ saveTranscriptChanges
  \/ ToggleFilter
  \/ ApplyPreset
  \/ SplitAtButton
  \/ DeleteSegment

SpecApp == InitApp /\ [][NextApp]_vars

\* ------------------------------------------------------------------ claims
\* The last handler was a split that went through: the turn it split, the
\* split point k, and the two turns it put in the turn's place.
SplitDone == lastCall.name = "splitSegmentAt" /\ lastCall.invoked
origTurn == prevData[lastCall.segmentIndex + 1]
splitK == lastCall.arg + 1
firstTurn == transcriptData[lastCall.segmentIndex + 1]
secondTurn == transcriptData[lastCall.segmentIndex + 2]

\* C1: after every valid split, the words of the first output turn followed
\* by the words of the second output turn are exactly the words of the turn
\* that was split: none lost, duplicated or reordered.
C1_SplitConservesWords ==
  SplitDone =>
    /\ 0 < splitK /\ splitK < Len(origTurn.words)
    /\ firstTurn.words \o secondTurn.words = origTurn.words
    /\ Len(firstTurn.words) = splitK

C1_Witness ==
  /\ SplitDone /\ Len(origTurn.words) >= 3 /\ splitK = 2
  /\ Len(firstTurn.words) = 2 /\ Len(secondTurn.words) >= 1

\* C2: a split request with k <= 0 or k >= words.length is a no-op: the
\* transcript-change callback is not invoked and the transcript is unchanged.
SplitRejected ==
  /\ lastCall.name = "splitSegmentAt"
  /\ (splitK <= 0 \/ splitK >= Len(origTurn.words))

C2_InvalidSplitIsNoOp ==
  SplitRejected =>
    /\ ~lastCall.invoked
    /\ transcriptData = prevData
    /\ issueCounts = countErrors(prevData)

C2_Witness ==
  /\ SplitRejected /\ splitK = Len(origTurn.words) /\ Len(origTurn.words) >= 2
  /\ ~lastCall.invoked /\ transcriptData = prevData

\* C3: starting from a transcript whose index-based annotations are in
\* range, after any sequence of splits and of word edits saved through the
\* popup, every repetition word index, revision location index and
\* morpheme-omission word_index is a valid index of its turn's words.
indexInRange(i, segment) == 0 <= i /\ i < Len(segment.words)
annotationsInRange(segment) ==
  /\ \A r \in 1..Len(segment.repetitions) :
       \A j \in 1..Len(segment.repetitions[r].words) :
         indexInRange(segment.repetitions[r].words[j], segment)
  /\ \A r \in 1..Len(segment.revision) :
       \A j \in 1..Len(segment.revision[r].location) :
         indexInRange(segment.revision[r].location[j], segment)
  /\ \A r \in 1..Len(segment.morpheme_omissions) :
       indexInRange(segment.morpheme_omissions[r].word_index, segment)

C3_IndexesStayInRange ==
  \A s \in 1..Len(transcriptData) : annotationsInRange(transcriptData[s])

\* C4: after every valid split each filler-word record and each
\* mispronunciation record of the split turn is in exactly one of the two
\* output turns, the one that holds a word with the same (start, end).
placedOnce(record, inFirst, inSecond) ==
  /\ Count(inFirst, record) + Count(inSecond, record) = 1
  /\ Count(inFirst, record) = 1 => someWordAt(firstTurn.words, record)
  /\ Count(inSecond, record) = 1 => someWordAt(secondTurn.words, record)

C4_TimestampRecordsPlacedOnce ==
  SplitDone =>
    /\ \A i \in 1..Len(origTurn.fillerwords) :
         placedOnce(origTurn.fillerwords[i], firstTurn.fillerwords, secondTurn.fillerwords)
    /\ \A i \in 1..Len(origTurn.mispronunciation) :
         placedOnce(origTurn.mispronunciation[i], firstTurn.mispronunciation,
                    secondTurn.mispronunciation)

\* C5: a valid split accounts for the turn-level utterance-error records
\* exactly once: the transcript's utterance-error issue count is the same
\* before and after the split.
C5_UtteranceErrorCountKept ==
  SplitDone =>
    /\ issueCounts.utterance_error = countErrors(prevData).utterance_error
    /\ Len(firstTurn.utterance_error) + Len(secondTurn.utterance_error)
         = Len(origTurn.utterance_error)

\* C10: a pause that lies in the gap between the last word of the first
\* turn and the first word of the second turn, and not between two
\* consecutive words inside either side, goes to the second turn and not to
\* the first.
inGap(p, before, after) == before.end <= p.start /\ p.end <= after.start
insideSomeGap(p, ws) == \E i \in 1..(Len(ws) - 1) : inGap(p, ws[i], ws[i + 1])
boundaryPause(p) ==
  /\ inGap(p, origTurn.words[splitK], origTurn.words[splitK + 1])
  /\ ~insideSomeGap(p, SubSeq(origTurn.words, 1, splitK))
  /\ ~insideSomeGap(p, SubSeq(origTurn.words, splitK + 1, Len(origTurn.words)))

C10_BoundaryPauseGoesToSecond ==
  SplitDone =>
    \A i \in 1..Len(origTurn.pauses) :
      boundaryPause(origTurn.pauses[i]) =>
        /\ origTurn.pauses[i] \in Range(secondTurn.pauses)
        /\ origTurn.pauses[i] \notin Range(firstTurn.pauses)

\* The analysis that calculateSpeechAnalysis returned for the transcript.
Analysed == lastCall.name = "calculateSpeechAnalysis" /\ speechAnalysis # <<>>
analysis == speechAnalysis[1]
measuredUtterances == allUtterances(transcriptData)

\* C6: for any transcript, the number of different words the analysis
\* reports never exceeds the number of total words it reports.
C6_NdwAtMostNtw == Analysed => analysis.ndw <= analysis.ntw

C6_Witness ==
  /\ Analysed /\ analysis.ntw >= 2 /\ analysis.ndw = analysis.ntw
  /\ \E s \in 1..Len(transcriptData) : transcriptData[s].morphemes # <<>>

\* C7: MLUw and MLUm are both 0 when the transcript yields no utterance;
\* when it yields at least one, both are strictly positive, and every
\* utterance holds at least one valid word and counts at least one morpheme.
C7_MluZeroOrPositive ==
  Analysed =>
    IF Len(measuredUtterances) = 0
      THEN analysis.mluw = Zero /\ analysis.mlum = Zero
      ELSE /\ analysis.mluw.num > 0 /\ analysis.mlum.num > 0
           /\ \A u \in 1..Len(measuredUtterances) :
                /\ Len(validWords(measuredUtterances[u].words)) >= 1
                /\ utteranceMorphemes(measuredUtterances[u]) >= 1

C7_Witness ==
  /\ Analysed /\ Len(measuredUtterances) >= 2
  /\ analysis.mluw.num > 0 /\ analysis.mlum.num > analysis.mluw.num
  /\ \E i \in 1..Len(transcriptData[1].words) :
       isFillerOrPunctuation(transcriptData[1].words[i].word)

\* C8: when the transcript's only non-examiner turn forms a single
\* utterance with n valid words, m of which are matched by content to a
\* morpheme record whose form is present and is not <IRR>, MLUw is n and
\* MLUm is n + m.  The record matched to a word is the first record of the
\* turn whose word is the word's text, one trailing punctuation mark aside.
\* Scenario A: [She, wants, to, go.] with one record for "wants" gives
\* MLUw 4 and MLUm 5.
singleUtterance(segment) ==
  /\ segment.speaker \notin ExaminerSpeakers
  /\ \E i \in 1..Len(segment.words) : ~isFillerOrPunctuation(segment.words[i].word)
  /\ \A i \in 1..(Len(segment.words) - 1) : ~endsSentence(segment.words[i].word)

validPositions(segment) ==
  {i \in 1..Len(segment.words) : ~isFillerOrPunctuation(segment.words[i].word)}

inflectedPositions(segment) ==
  {i \in validPositions(segment) :
     LET match == findMorpheme(segment.morphemes, segment.words[i])
     IN match # <<>> /\ match[1].morpheme_form # <<>> /\ match[1].morpheme_form # IRR}

cleanedText(word) == SelectSeq(MapSeq(word, lowerChar), LAMBDA c : c \notin Punctuation)
validWord(word) ==
  /\ cleanedText(word) # <<>>
  /\ cleanedText(word) \notin {um, uh}
  /\ \A i \in 1..Len(word) : word[i] \notin {"[", "]"}
  /\ \E i \in 1..Len(word) : word[i] \notin Punctuation

countValid(words) == Cardinality({i \in 1..Len(words) : validWord(words[i].word)})

C9_NtwCountsValidWords ==
  Analysed =>
    /\ analysis.ntw = sumSeq([s \in 1..Len(transcriptData) |-> countValid(transcriptData[s].words)])
    /\ Len(measuredUtterances) > 0 =>
         analysis.mluw =
           Quotient(sumSeq([u \in 1..Len(measuredUtterances) |->
                              countValid(measuredUtterances[u].words)]),
                    Len(measuredUtterances))
    /\ \A s \in 1..Len(transcriptData) :
         LET turn == transcriptData[s]
             utterances == splitSegmentIntoUtterances(turn)
         IN /\ \A u \in 1..Len(utterances) :
                 LET last == utterances[u].words[Len(utterances[u].words)]
                 IN endsSentence(last.word) \/ last = turn.words[Len(turn.words)]
            /\ (/\ countValid(turn.words) > 0
                /\ \A i \in 1..(Len(turn.words) - 1) : ~endsSentence(turn.words[i].word))
               => Len(utterances) = 1 /\ utterances[1].words = turn.words

C9_Witness ==
  /\ Analysed /\ transcriptData = ScenarioB
  /\ analysis.ntw = 3 /\ Len(measuredUtterances) = 1
  /\ measuredUtterances[1].words = transcriptData[1].words
  /\ analysis.mluw = Whole(3)

\* C11 as stated: NDW is the number of canonical forms of the valid words,
\* the canonical form of a word being the lower-cased lemma of its matched
\* morpheme record when that record's form is not <IRR>, and the cleaned
\* text of the word otherwise.
statedCanonicalForm(segment, w) ==
  LET match == findMorpheme(segment.morphemes, w)
  IN IF match # <<>> /\ match[1].morpheme_form # IRR
       THEN MapSeq(match[1].lemma, lowerChar)
       ELSE cleanedText(w.word)

canonicalForm(segment, w) ==
  LET match == findMorpheme(segment.morphemes, w)
  IN IF /\ match # <<>>
        /\ match[1].lemma # <<>>
        /\ match[1].morpheme_form # <<>>
        /\ match[1].morpheme_form # IRR
       THEN MapSeq(match[1].lemma, lowerChar)
       ELSE cleanedText(w.word)

totalIssues ==
  issueCounts.pause + issueCounts.filler + issueCounts.repetition
    + issueCounts.mispronunciation + issueCounts.morpheme
    + issueCounts.morpheme_omission + issueCounts.revision + issueCounts.utterance_error

C12_ErrorRateOverNtw ==
  Analysed =>
    /\ analysis.errorRate =
         IF analysis.ntw > 0 THEN Quotient(totalIssues * 100, analysis.ntw) ELSE Zero
    /\ \A ratio \in {analysis.errorRate, analysis.speakingRate, analysis.mluw, analysis.mlum} :
         ratio.den > 0

\* C13: a turn whose speaker is exactly "Examiner" or "EXAMINER" contributes
\* no utterance to MLUw and MLUm, a turn with any other label (lower-case
\* "examiner" included) contributes all of its utterances, and the transcript
\* without its examiner turns has the same MLUw and MLUm.
examinerTurn(segment) ==
  segment.speaker \in {<<"E", "x", "a", "m", "i", "n", "e", "r">>,
                       <<"E", "X", "A", "M", "I", "N", "E", "R">>}

withoutExaminer == SelectSeq(transcriptData, LAMBDA segment : ~examinerTurn(segment))

C13_ExaminerTurnsNotMeasured ==
  Analysed =>
    /\ measuredUtterances =
         flatten([s \in 1..Len(transcriptData) |->
                    IF examinerTurn(transcriptData[s])
                      THEN <<>>
                      ELSE splitSegmentIntoUtterances(transcriptData[s])])
    /\ analysis.mluw = calculateSpeechAnalysis(withoutExaminer).mluw
    /\ analysis.mlum = calculateSpeechAnalysis(withoutExaminer).mlum

C13_Witness ==
  /\ Analysed
  /\ Len(transcriptData) = 2
  /\ singleUtterance(transcriptData[1])
  /\ examinerTurn(transcriptData[2])
  /\ Len(splitSegmentIntoUtterances(transcriptData[2])) = 2
  /\ Len(measuredUtterances) = 1

C13_WitnessLowerCase ==
  /\ Analysed
  /\ Len(transcriptData) = 2
  /\ transcriptData[2].speaker = <<"e", "x", "a", "m", "i", "n", "e", "r">>
  /\ Len(measuredUtterances) = 2

\* C14: for any transcript and any speaker S other than the examiner, the
\* sidebar's NTW, NDW, MLUw and MLUm for S equal the figures
\* calculateSpeechAnalysis returns for the transcript made of S's turns.
nonExaminerSpeakers ==
  {transcriptData[s].speaker : s \in 1..Len(transcriptData)} \ ExaminerSpeakers

C14_SidebarAgreesWithAnalysis ==
  Analysed =>
    \A currentSpeaker \in nonExaminerSpeakers :
      LET data == speakerTranscriptData(transcriptData, currentSpeaker)
          ofSpeaker == calculateSpeechAnalysis(data)
      IN /\ calculateTotalWords(data) = ofSpeaker.ntw
         /\ calculateNDW(data) = ofSpeaker.ndw
         /\ calculateMLUw(data) = ofSpeaker.mluw
         /\ calculateMLUm(data) = ofSpeaker.mlum

\* C15: for any transcript, the list of available issue types holds each
\* category at most once, and holds a category exactly when that category's
\* issue count is greater than 0; 'morpheme' is counted, and so listed, only
\* for the morpheme records that have a form and whose form is not <IRR>.
Categories ==
  {"filler", "repetition", "pause", "utterance-error", "mispronunciation",
   "morpheme-omission", "morpheme", "revision"}

countOf(category) ==
  CASE category = "filler" -> analysis.errorCounts.filler
    [] category = "repetition" -> analysis.errorCounts.repetition
    [] category = "pause" -> analysis.errorCounts.pause
    [] category = "utterance-error" -> analysis.errorCounts.utterance_error
    [] category = "mispronunciation" -> analysis.errorCounts.mispronunciation
    [] category = "morpheme-omission" -> analysis.errorCounts.morpheme_omission
    [] category = "morpheme" -> analysis.errorCounts.morpheme
    [] category = "revision" -> analysis.errorCounts.revision

regularRecords(segment) ==
  {i \in 1..Len(segment.morphemes) : segment.morphemes[i].morpheme_form \notin {<<>>, IRR}}

C15_AvailableTypesMatchCounts ==
  Analysed =>
    LET listed == analysis.availableErrorTypes
        timesListed(category) == Cardinality({i \in 1..Len(listed) : listed[i] = category})
    IN /\ Range(listed) \subseteq Categories
       /\ \A category \in Categories :
            timesListed(category) = IF countOf(category) > 0 THEN 1 ELSE 0
       /\ analysis.errorCounts.morpheme =
            sumSeq([s \in 1..Len(transcriptData) |->
                      Cardinality(regularRecords(transcriptData[s]))])

C15_Witness ==
  /\ Analysed
  /\ Len(transcriptData) = 2
  /\ Len(transcriptData[1].pauses) = 1
  /\ Len(transcriptData[2].pauses) = 1
  /\ analysis.availableErrorTypes = <<"pause">>

C15_WitnessIrregular ==
  /\ Analysed
  /\ Len(transcriptData) = 2
  /\ Len(transcriptData[1].morphemes) = 1
  /\ transcriptData[1].morphemes[1].morpheme_form = IRR
  /\ Len(transcriptData[2].revision) = 1
  /\ analysis.availableErrorTypes = <<"revision">>

\* C16: calculateSpeechAnalysis completes without raising on a transcript
\* in which a turn has no words array or a morpheme record has no word, and
\* returns what it returns when the missing data is empty.
completed(segments) ==
  [s \in 1..Len(segments) |->
     LET words == IF "words" \in DOMAIN segments[s] THEN segments[s].words ELSE <<>>
         morphemes ==
           [i \in 1..Len(segments[s].morphemes) |->
              LET m == segments[s].morphemes[i]
              IN [word |-> IF "word" \in DOMAIN m THEN m.word ELSE <<>>,
                  lemma |-> m.lemma, morpheme_form |-> m.morpheme_form,
                  index |-> m.index, word_index |-> m.word_index]]
     IN [speaker |-> segments[s].speaker, text |-> segments[s].text,
         start |-> segments[s].start, end |-> segments[s].end,
         words |-> words, fillerwords |-> segments[s].fillerwords,
         repetitions |-> segments[s].repetitions, pauses |-> segments[s].pauses,
         utterance_error |-> segments[s].utterance_error,
         mispronunciation |-> segments[s].mispronunciation,
         morpheme_omissions |-> segments[s].morpheme_omissions,
         revision |-> segments[s].revision, morphemes |-> morphemes]]

C16_AnalysisIsTotal ==
  lastCall.name \in {"calculateSpeechAnalysis", "TypeError"} =>
    /\ lastCall.name # "TypeError"
    /\ speechAnalysis = <<calculateSpeechAnalysis(completed(transcriptData))>>

C18_SplitTimeIsWordStart ==
  SplitDone =>
    /\ firstTurn.end = origTurn.words[splitK + 1].start
    /\ secondTurn.start = origTurn.words[splitK + 1].start
    /\ firstTurn.start = origTurn.start
    /\ secondTurn.end = origTurn.end

\* C19: for every valid split, every pause of the input turn goes to exactly
\* one output turn, chosen by the first rule that applies: (a) between two
\* consecutive words of the first turn, first; (b) between two consecutive
\* words of the second turn, second; (c) in the boundary gap, second;
\* (d) otherwise first if pause.start < splitTime, else second.  The number
\* of pauses is unchanged by the split.
betweenWords(pause, before, after) == pause.start >= before.end /\ pause.end <= after.start

statedTurnOfPause(pause) ==
  LET words == origTurn.words
      k == splitK
  IN IF \E i \in 1..(k - 1) : betweenWords(pause, words[i], words[i + 1]) THEN "first"
     ELSE IF \E i \in (k + 1)..(Len(words) - 1) : betweenWords(pause, words[i], words[i + 1])
       THEN "second"
     ELSE IF betweenWords(pause, words[k], words[k + 1]) THEN "second"
     ELSE IF pause.start < words[k + 1].start THEN "first" ELSE "second"

C19_PausesFollowStatedRules ==
  SplitDone =>
    /\ firstTurn.pauses =
         SelectSeq(origTurn.pauses, LAMBDA pause : statedTurnOfPause(pause) = "first")
    /\ secondTurn.pauses =
         SelectSeq(origTurn.pauses, LAMBDA pause : statedTurnOfPause(pause) = "second")
    /\ Len(firstTurn.pauses) + Len(secondTurn.pauses) = Len(origTurn.pauses)

\* C20: for every valid split at k and every repetition, revision and
\* morpheme-omission record whose indices are in range, each index i < k is
\* kept as it is in the record of the first turn, each index i >= k becomes
\* i - k in the record of the second turn and no index is dropped; a record
\* with indices on both sides gives one partial record on each side, and
\* the indices of the two, shifted back, make up the original index set.
keptInFirst(indexes) == SelectSeq(indexes, LAMBDA i : i < splitK)
keptInSecond(indexes) ==
  LET late == SelectSeq(indexes, LAMBDA i : i >= splitK)
  IN [j \in 1..Len(late) |-> late[j] - splitK]

\* The index lists of the records of one kind, record by record.
indexLists(segment) ==
  [p \in 1..Len(segment.repetitions) |-> segment.repetitions[p].words]
    \o [p \in 1..Len(segment.revision) |-> segment.revision[p].location]
    \o [p \in 1..Len(segment.morpheme_omissions) |-> <<segment.morpheme_omissions[p].word_index>>]

nonEmpty(lists) == SelectSeq(lists, LAMBDA l : l # <<>>)

C20_IndexRecordsFollowTheWords ==
  (SplitDone /\ \A p \in 1..Len(indexLists(origTurn)) :
                  \A j \in 1..Len(indexLists(origTurn)[p]) :
                    indexLists(origTurn)[p][j] \in 0..(Len(origTurn.words) - 1))
  => LET original == indexLists(origTurn)
     IN /\ indexLists(firstTurn) = nonEmpty([p \in 1..Len(original) |-> keptInFirst(original[p])])
        /\ indexLists(secondTurn) = nonEmpty([p \in 1..Len(original) |-> keptInSecond(original[p])])
        /\ \A p \in 1..Len(original) :
             Range(original[p]) =
               Range(keptInFirst(original[p]))
                 \cup {i + splitK : i \in Range(keptInSecond(original[p]))}

C20_Witness ==
  /\ SplitDone
  /\ Len(origTurn.repetitions) = 1
  /\ origTurn.repetitions[1].words = <<0, 1>>
  /\ splitK = 1
  /\ firstTurn.repetitions = <<[words |-> <<0>>]>>
  /\ secondTurn.repetitions = <<[words |-> <<0>>]>>

C20_WitnessOmission ==
  /\ SplitDone
  /\ Len(origTurn.morpheme_omissions) = 1
  /\ origTurn.morpheme_omissions[1].word_index = 2
  /\ splitK = 1
  /\ firstTurn.morpheme_omissions = <<>>
  /\ secondTurn.morpheme_omissions = <<[word_index |-> 1]>>

\* C21: for every valid split at k, each morpheme record of the input turn
\* ends up in exactly one output turn, the one that holds the word it
\* describes: a record with an index i goes to the first turn unchanged when
\* i < k and to the second turn with index i - k otherwise; a record with
\* no index goes to the side whose words match its word, so a record whose
\* word lies only in the second turn is in the second turn and not in the
\* first.  NDW and the morphemes counted for MLUm, recomputed after the
\* split, are what they were before it.
recordIndex(m) == IF m.index # <<>> THEN m.index ELSE m.word_index

matchesSide(m, words) == \E i \in 1..Len(words) : sameContent(words[i], m)

statedSideOfMorpheme(m) ==
  IF recordIndex(m) # <<>>
    THEN IF recordIndex(m)[1] < splitK THEN "first" ELSE "second"
    ELSE IF matchesSide(m, SubSeq(origTurn.words, 1, splitK)) THEN "first"
    ELSE IF matchesSide(m, SubSeq(origTurn.words, splitK + 1, Len(origTurn.words))) THEN "second"
    ELSE "first"

unshifted(m) ==
  [m EXCEPT !.index = IF m.index # <<>> THEN <<m.index[1] + splitK>> ELSE m.index,
            !.word_index = IF m.word_index # <<>> THEN <<m.word_index[1] + splitK>>
                                                  ELSE m.word_index]

countedMorphemes(segments) ==
  sumSeq([s \in 1..Len(segments) |-> Cardinality(inflectedPositions(segments[s]))])

C21_MorphemesFollowTheirWord ==
  SplitDone =>
    /\ firstTurn.morphemes =
         SelectSeq(origTurn.morphemes, LAMBDA m : statedSideOfMorpheme(m) = "first")
    /\ [i \in 1..Len(secondTurn.morphemes) |-> unshifted(secondTurn.morphemes[i])] =
         SelectSeq(origTurn.morphemes, LAMBDA m : statedSideOfMorpheme(m) = "second")
    /\ calculateSpeechAnalysis(transcriptData).ndw = calculateSpeechAnalysis(prevData).ndw
    /\ countedMorphemes(transcriptData) = countedMorphemes(prevData)

\* C22: a morpheme record is matched to a word whenever their cleaned texts
\* are equal, where cleaning lower-cases the text and strips the characters
\* . , ! ? ; : from both of its ends; the record returned for a word is the
\* first such record of the turn.
RECURSIVE stripLeading(_)
stripLeading(text) ==
  IF text # <<>> /\ Head(text) \in Punctuation THEN stripLeading(Tail(text)) ELSE text

RECURSIVE stripTrailing(_)
stripTrailing(text) ==
  IF text # <<>> /\ text[Len(text)] \in Punctuation
    THEN stripTrailing(SubSeq(text, 1, Len(text) - 1))
    ELSE text

clean(text) == stripTrailing(stripLeading(toLowerCase(text)))

statedMatch(morphemes, word) ==
  LET hits == {i \in 1..Len(morphemes) :
                 "word" \in DOMAIN morphemes[i] /\ clean(morphemes[i].word) = clean(word.word)}
  IN IF hits = {} THEN <<>> ELSE <<morphemes[CHOOSE i \in hits : \A j \in hits : i <= j]>>

C22_MatchByCleanedText ==
  Analysed =>
    \A s \in 1..Len(transcriptData) :
      \A i \in validPositions(transcriptData[s]) :
        findMorpheme(transcriptData[s].morphemes, transcriptData[s].words[i])
          = statedMatch(transcriptData[s].morphemes, transcriptData[s].words[i])

\* C23: the segmenter ends a run at every word whose text holds '.', '?' or
\* '!', a filler such as "uh." included, and at the end of the turn; a run is
\* emitted as an utterance exactly when it holds a valid word, so every
\* emitted utterance has a valid word.
RECURSIVE statedRuns(_, _)
statedRuns(words, from) ==
  IF from > Len(words)
    THEN <<>>
    ELSE LET ends == {i \in from..Len(words) :
                        \/ i = Len(words)
                        \/ \E c \in 1..Len(words[i].word) : words[i].word[c] \in {".", "?", "!"}}
             end == CHOOSE i \in ends : \A j \in ends : i <= j
         IN <<SubSeq(words, from, end)>> \o statedRuns(words, end + 1)

statedUtterances(words) ==
  SelectSeq(statedRuns(words, 1), LAMBDA run : countValid(run) > 0)

emitted(segment) ==
  [u \in 1..Len(splitSegmentIntoUtterances(segment)) |->
     splitSegmentIntoUtterances(segment)[u].words]

C23_RunsEndAtSentenceMarks ==
  Analysed =>
    \A s \in 1..Len(transcriptData) :
      /\ emitted(transcriptData[s]) = statedUtterances(transcriptData[s].words)
      /\ \A u \in 1..Len(emitted(transcriptData[s])) :
           countValid(emitted(transcriptData[s])[u]) > 0

C23_Witness ==
  /\ Analysed
  /\ Len(transcriptData) = 1
  /\ Len(transcriptData[1].words) = 2
  /\ transcriptData[1].words[1].word = <<"U", "h", ".">>
  /\ transcriptData[1].words[2].word = cat
  /\ Len(emitted(transcriptData[1])) = 1
  /\ Len(emitted(transcriptData[1])[1]) = 1

\* C27: for every turn, the emitted utterances are pairwise-disjoint
\* contiguous runs of the turn's words in scan order and every valid word of
\* the turn lies in exactly one of them; so the valid words the utterances
\* hold, summed for MLUw, are the valid words of the non-examiner turns.
Intervals(n) == {iv \in (1..n) \X (1..n) : iv[1] <= iv[2]}

runsOfTurn(segment) ==
  LET words == segment.words
      utterances == emitted(segment)
  IN \E place \in [1..Len(utterances) -> Intervals(Len(words))] :
       /\ \A u \in 1..Len(utterances) :
            utterances[u] = SubSeq(words, place[u][1], place[u][2])
       /\ \A u \in 1..(Len(utterances) - 1) : place[u][2] < place[u + 1][1]
       /\ \A i \in 1..Len(words) :
            validWord(words[i].word) =>
              Cardinality({u \in 1..Len(utterances) : place[u][1] <= i /\ i <= place[u][2]}) = 1

C27_UtterancesPartitionValidWords ==
  Analysed =>
    /\ \A s \in 1..Len(transcriptData) : runsOfTurn(transcriptData[s])
    /\ sumSeq([u \in 1..Len(measuredUtterances) |-> countValid(measuredUtterances[u].words)])
         = sumSeq([s \in 1..Len(transcriptData) |->
                     IF examinerTurn(transcriptData[s])
                       THEN 0
                       ELSE countValid(transcriptData[s].words)])

C27_Witness ==
  /\ Analysed
  /\ Len(transcriptData) = 1
  /\ Len(transcriptData[1].words) = 2
  /\ transcriptData[1].words[1].word = goDot
  /\ transcriptData[1].words[2].word = cats
  /\ emitted(transcriptData[1]) = <<SubSeq(transcriptData[1].words, 1, 1),
                                    SubSeq(transcriptData[1].words, 2, 2)>>
  /\ analysis.mluw = Whole(1)

\* C24: for every valid split of a turn whose start and end bound all of
\* its words, the words being in ascending order of start time, each of the
\* two output turns has its start and end bounding all of its own words.
boundsItsWords(segment) ==
  \A i \in 1..Len(segment.words) :
    segment.start <= segment.words[i].start /\ segment.words[i].end <= segment.end

ascendingStarts(segment) ==
  \A i \in 1..(Len(segment.words) - 1) : segment.words[i].start <= segment.words[i + 1].start

C24_SplitKeepsWordsBounded ==
  (SplitDone /\ boundsItsWords(origTurn) /\ ascendingStarts(origTurn))
    => boundsItsWords(firstTurn) /\ boundsItsWords(secondTurn)

\* C26: when caching an item forces eviction, the entries go in
\* least-recently-accessed order: if an entry of the cache the call read is
\* kept, every entry with a later lastAccessed time is kept as well.
retained(write) == {i \in 1..Len(write.from) : cachedAt(write.cache, write.from[i].key) # {}}
C26_EvictionIsLeastRecentFirst ==
  \A w \in Range(lastWrite) :
    w.evicts =>
      \A i \in retained(w) :
        \A j \in 1..Len(w.from) :
          w.from[j].lastAccessed > w.from[i].lastAccessed => j \in retained(w)

\* C30: with items of at most MAX_CACHE_SIZE each, the entries a caching
\* call hands to the cache, and the entries the cache holds, never add up to
\* more than MAX_CACHE_SIZE, and the item of the call is among the entries
\* handed over.
C30_CacheStaysWithinItsSize ==
  /\ calculateCacheSize(audioCache) <= MAX_CACHE_SIZE
  /\ \A w \in Range(lastWrite) :
       /\ calculateCacheSize(w.cache) <= MAX_CACHE_SIZE
       /\ cachedAt(w.cache, w.key) # {}
C30_Witness ==
  /\ lastWrite # <<>>
  /\ lastWrite[1].evicts
  /\ Len(lastWrite[1].cache) >= 2
  /\ Len(lastWrite[1].cache) <= Len(lastWrite[1].from)
  /\ audioCache = lastWrite[1].cache

\* C25: after every completed operation that replaces the displayed
\* transcript (file upload, processing a recorded clip, loading the sample,
\* an edit delivered through handleTranscriptChange) the stored analysis is
\* the analysis computed from scratch on the transcript now displayed.
replacedTranscript ==
  \/ lastCall.name = "loadSampleData"
  \/ /\ lastCall.invoked
     /\ lastCall.name \in {"handleFileUpload", "handleProcessRecording", "splitSegmentAt",
                           "deleteSegment", "handleSave"}
C25_AnalysisFollowsTranscript ==
  (replacedTranscript /\ transcriptData # <<>>) =>
    speechAnalysis = <<calculateSpeechAnalysis(transcriptData)>>

\* C28: however an upload in flight and the selection of a stored recording
\* interleave, the current recording id is the id of the recording the
\* displayed transcript belongs to, and saveTranscriptChanges writes a
\* transcript under the id of its own recording.
C28_IdAndTranscriptOfOneRecording ==
  /\ currentRecordingId # <<>> => shown = Origin("stored", currentRecordingId[1])
  /\ (lastCall.name = "saveTranscriptChanges" /\ lastCall.invoked) =>
       shown = Origin("stored", lastCall.arg)

\* C29: after any sequence of loads, filter toggles on available types,
\* presets and transcript edits, every active filter is one of the
\* available issue types.
C29_ActiveFiltersAreAvailable ==
  \A i \in 1..Len(activeFilters) : activeFilters[i] \in Range(availableErrorTypes)

====
